---- MODULE Spec2Model ----
(***************************************************************************)
(* DevHaven: the persistent project catalog (config_store.py,              *)
(* project_repository.py, project_service.py), the selection controller   *)
(* (presentation/app.py) and the terminal bridge (presentation/terminal.py)*)
(*                                                                         *)
(* Python values are modelled as follows.                                  *)
(*   str            a sequence of characters, <<"a","p","i">>             *)
(*   Optional[T]    a sequence of length <= 1: None is <<>>, x is <<x>>    *)
(*   a JSON scalar  a record [t |-> type tag, v |-> number]                *)
(*   a timestamp    the string now_iso() prints for the clock's second     *)
(***************************************************************************)
EXTENDS Integers, Sequences, FiniteSets, TLC

VARIABLES
    store,                \* the file config.json: absent, unparsable, or a JSON value
    clock,                \* the wall clock, in seconds
    mounted,              \* DevHavenApp: on_mount has run
    projects,             \* DevHavenApp.projects
    selected_project_id,  \* DevHavenApp.selected_project_id (Optional[int])
    selected_space,       \* DevHavenApp.selected_space (Optional[str])
    query_text,           \* DevHavenApp.query_text
    pending,              \* a tree node message posted and not yet handled (Optional)
    emulator,             \* ProjectTerminal.emulator is not None
    send_queue,           \* ProjectTerminal.send_queue (Optional[queue of items])
    shell,                \* the shell process: "unstarted", "running", "terminated"
    spawned,              \* number of shell processes forked so far
    pty_input,            \* what the input pump has written to the pseudo-terminal
    enqueued,             \* history: every item put on a send queue, in call order
    assigned,             \* history: the ids create_project has assigned, in order
    last                  \* history: the handler that ran last and what it observed

vars == <<store, clock, mounted, projects, selected_project_id, selected_space,
          query_text, pending, emulator, send_queue, shell, spawned, pty_input,
          enqueued, assigned, last>>

repoVars == <<store, clock, assigned>>
appVars == <<mounted, projects, selected_project_id, selected_space, query_text,
            pending>>
termVars == <<emulator, send_queue, shell, spawned, pty_input, enqueued>>

(***************************************************************************)
(* Bounds of the model.                                                    *)
(***************************************************************************)
MaxProjectId == 2     \* create_project is not called once next_project_id exceeds it
MaxClock == 1         \* the clock stops advancing at this second
MaxQueue == 1         \* handlers wait while the send queue holds this many items
MaxSent == 3          \* TermSpec: items ever put on the send queue
MaxListed == 3        \* CatalogSpec: create_project is not called once next_project_id exceeds it

(***************************************************************************)
(* Strings.                                                                *)
(***************************************************************************)
None == <<>>
Some(x) == <<x>>

Code(c) ==
    CASE c = "^A" -> 1
      [] c = "^B" -> 2
      [] c = "^C" -> 3
      [] c = "\n" -> 10
      [] c = "^Z" -> 26
      [] c = "ESC" -> 27
      [] c = " " -> 32
      [] c = "\"" -> 34
      [] c = "#" -> 35
      [] c = "." -> 46
      [] c = "/" -> 47
      [] c = "0" -> 48
      [] c = "1" -> 49
      [] c = "2" -> 50
      [] c = "3" -> 51
      [] c = "4" -> 52
      [] c = "5" -> 53
      [] c = "6" -> 54
      [] c = "7" -> 55
      [] c = "8" -> 56
      [] c = "9" -> 57
      [] c = ":" -> 58
      [] c = "B" -> 66
      [] c = "W" -> 87
      [] c = "\\" -> 92
      [] c = "a" -> 97
      [] c = "b" -> 98
      [] c = "c" -> 99
      [] c = "d" -> 100
      [] c = "p" -> 112
      [] c = "q" -> 113
      [] c = "w" -> 119
      [] c = "z" -> 122
      [] c = "U+4E2A" -> 20010
      [] c = "U+4EBA" -> 20154
      [] c = "U+D800" -> 55296

LowerChar(c) ==
    CASE c = "B" -> "b"
      [] c = "P" -> "p"
      [] c = "Q" -> "q"
      [] c = "W" -> "w"
      [] OTHER -> c

lower(s) == [i \in 1..Len(s) |-> LowerChar(s[i])]

IsSpaceChar(c) == c \in {" ", "\n"}

RECURSIVE lstrip(_)
lstrip(s) == IF s # <<>> /\ IsSpaceChar(Head(s)) THEN lstrip(Tail(s)) ELSE s

RECURSIVE rstrip(_)
rstrip(s) ==
    IF s # <<>> /\ IsSpaceChar(s[Len(s)]) THEN rstrip(SubSeq(s, 1, Len(s) - 1)) ELSE s

strip(s) == rstrip(lstrip(s))

\* Python's str "<": lexicographic by code point, a proper prefix is smaller.
RECURSIVE StrLess(_, _)
StrLess(a, b) ==
    IF b = <<>> THEN FALSE
    ELSE IF a = <<>> THEN TRUE
    ELSE IF Code(Head(a)) # Code(Head(b)) THEN Code(Head(a)) < Code(Head(b))
    ELSE StrLess(Tail(a), Tail(b))

Digit(n) == CASE n = 0 -> "0" [] n = 1 -> "1" [] n = 2 -> "2" [] n = 3 -> "3"
              [] n = 4 -> "4" [] n = 5 -> "5" [] n = 6 -> "6" [] n = 7 -> "7"
              [] n = 8 -> "8" [] n = 9 -> "9"

\* now_iso(): a fixed-width, zero-padded print of the clock (its seconds field).
now_iso(t) == <<Digit((t \div 10) % 10), Digit(t % 10)>>

\* DEFAULT_SPACE: two CJK characters, written by their code points.
DEFAULT_SPACE == <<"U+4E2A", "U+4EBA">>

normalize_space(space) ==
    LET candidate == strip(space)
    IN  IF candidate # <<>> THEN candidate ELSE DEFAULT_SPACE

RECURSIVE normalize_tags_from(_, _)
normalize_tags_from(tags, normalized) ==
    IF tags = <<>> THEN normalized
    ELSE LET item == strip(Head(tags))
         IN  IF item # <<>> /\ \A i \in 1..Len(normalized) : normalized[i] # item
             THEN normalize_tags_from(Tail(tags), Append(normalized, item))
             ELSE normalize_tags_from(Tail(tags), normalized)

\* normalize_tags in which the last occurrence of a tag wins
normalize_tags_last_wins(tags) ==
    LET reversed == [i \in 1..Len(tags) |-> tags[Len(tags) + 1 - i]]
        normalized == normalize_tags_from(reversed, <<>>)
    IN  [i \in 1..Len(normalized) |-> normalized[Len(normalized) + 1 - i]]

normalize_tags(tags) == normalize_tags_from(tags, <<>>)

(***************************************************************************)
(* JSON values and the config store (infrastructure/config_store.py).      *)
(***************************************************************************)
JInt(n) == [t |-> "int", v |-> n]
JStr(s) == [t |-> "str", v |-> s]
JMissing == [t |-> "missing", v |-> 0]
JAbsentKey == [t |-> "missing", v |-> <<>>]
JList(items) == [t |-> "list", v |-> items]

\* isinstance(x, int): bool is a subclass of int.
is_int(x) == x.t \in {"int", "bool"}

\* int(x): Some(n), or None where Python raises TypeError / ValueError.
py_int(x) ==
    IF x.t \in {"int", "bool", "float", "numstr"} THEN Some(x.v) ELSE None

DEFAULT_CONFIG ==
    [open_command |-> JStr(<<>>), projects |-> JList(<<>>), next_project_id |-> JInt(1)]

AbsentStore == [kind |-> "absent", doc |-> DEFAULT_CONFIG]

\* base = deepcopy(DEFAULT_CONFIG); base.update(payload)
Overlay(base, payload) ==
    [k \in DOMAIN base |-> IF payload[k].t = "missing" THEN base[k] ELSE payload[k]]

\* path.read_text(encoding="utf-8") raises UnicodeDecodeError on bytes that are
\* not UTF-8; "except json.JSONDecodeError" does not catch it, so load_config and
\* every caller of it are left by the exception.
load_raises(file) == file.kind = "undecodable"

load_config(file) ==
    IF file.kind = "absent" THEN DEFAULT_CONFIG
    ELSE IF file.kind = "invalid" THEN DEFAULT_CONFIG
    ELSE IF file.kind = "object" THEN Overlay(DEFAULT_CONFIG, file.doc)
    ELSE DEFAULT_CONFIG

\* A lone surrogate, which json.loads accepts as the escape \ud800 and the UTF-8
\* codec refuses to encode.
HasSurrogate(s) == \E i \in 1..Len(s) : s[i] = "U+D800"

\* path.write_text(text, encoding="utf-8") raises UnicodeEncodeError when a string
\* of the config holds a lone surrogate.
save_raises(config) ==
    \/ config.open_command.t = "str" /\ HasSurrogate(config.open_command.v)
    \/ \E i \in 1..Len(config.projects) :
          LET item == config.projects[i]
              strings == <<item.name, item.path, item.space, item.created_at,
                           item.updated_at>> \o item.tags \o item.last_opened_at
          IN  \E j \in 1..Len(strings) : HasSurrogate(strings[j])

\* write_text opens the file for writing, which empties it, before it encodes:
\* when it raises the file is left empty, which is not JSON.
TruncatedFile == [kind |-> "invalid", doc |-> DEFAULT_CONFIG]

\* json.dumps of the whole dict; a loaded state is written back as an object.
save_config(config) ==
    IF save_raises(config) THEN TruncatedFile
    ELSE [kind |-> "object",
          doc |-> [open_command |-> config.open_command,
                   projects |-> JList(config.projects),
                   next_project_id |-> config.next_project_id]]

(***************************************************************************)
(* ProjectRepository (infrastructure/project_repository.py).               *)
(***************************************************************************)
project_id_of(data) ==
    IF data.id.t = "missing" THEN 0
    ELSE IF py_int(data.id) = None THEN 0
    ELSE py_int(data.id)[1]

RECURSIVE next_project_id_from(_, _)
next_project_id_from(items, max_id) ==
    IF items = <<>> THEN (IF max_id >= 1 THEN max_id + 1 ELSE 1)
    ELSE IF Head(items).t # "dict" THEN next_project_id_from(Tail(items), max_id)
    ELSE IF project_id_of(Head(items)) > max_id
         THEN next_project_id_from(Tail(items), project_id_of(Head(items)))
         ELSE next_project_id_from(Tail(items), max_id)

next_project_id(items) == next_project_id_from(items, 0)

load_state(file) ==
    LET config == load_config(file)
        items == IF config.projects.t = "list" THEN config.projects.v ELSE <<>>
        next_id == config.next_project_id
    IN  [open_command |-> config.open_command,
         projects |-> items,
         next_project_id |->
             IF ~is_int(next_id) \/ next_id.v < 1
             THEN JInt(next_project_id(items))
             ELSE next_id]

project_from_dict(data) ==
    IF data.t # "dict" THEN None
    ELSE IF py_int(data.id) = None THEN None
    ELSE LET name == strip(data.name)
             path == strip(data.path)
         IN  IF name = <<>> \/ path = <<>> THEN None
             ELSE Some([id |-> py_int(data.id)[1],
                        name |-> name,
                        path |-> path,
                        space |-> normalize_space(data.space),
                        tags |-> normalize_tags(data.tags),
                        created_at |-> data.created_at,
                        updated_at |-> data.updated_at,
                        last_opened_at |-> data.last_opened_at])

RECURSIVE load_projects(_)
load_projects(items) ==
    IF items = <<>> THEN <<>>
    ELSE project_from_dict(Head(items)) \o load_projects(Tail(items))

get_project(file, project_id) ==
    LET loaded == load_projects(load_state(file).projects)
        hits == {i \in 1..Len(loaded) : loaded[i].id = project_id}
    IN  IF hits = {} THEN None
        ELSE Some(loaded[CHOOSE i \in hits : \A j \in hits : i <= j])

\* needle in hay (Python's substring test).
Contains(hay, needle) ==
    \E i \in 0..(Len(hay) - Len(needle)) : SubSeq(hay, i + 1, i + Len(needle)) = needle

RECURSIVE join_comma(_)
join_comma(tags) ==
    IF tags = <<>> THEN <<>>
    ELSE IF Len(tags) = 1 THEN tags[1]
    ELSE tags[1] \o <<",">> \o join_comma(Tail(tags))

\* _matches_query that compares the fields as stored, not lower-cased
matches_query_case_sensitive(project, query) ==
    \/ Contains(project.name, query)
    \/ Contains(project.path, query)
    \/ Contains(project.space, query)
    \/ Contains(join_comma(project.tags), query)

matches_query(project, query) ==
    \/ Contains(lower(project.name), query)
    \/ Contains(lower(project.path), query)
    \/ Contains(lower(project.space), query)
    \/ Contains(lower(join_comma(project.tags)), query)

NameKey(item) == lower(item.name)
OpenedKey(item) == IF item.last_opened_at = None THEN <<>> ELSE item.last_opened_at[1]

\* sorted(..., key=name.lower()): one step of a stable ascending insertion.
RECURSIVE InsertByName(_, _)
InsertByName(sorted, x) ==
    IF sorted = <<>> THEN <<x>>
    ELSE IF StrLess(NameKey(x), NameKey(Head(sorted))) THEN <<x>> \o sorted
    ELSE <<Head(sorted)>> \o InsertByName(Tail(sorted), x)

RECURSIVE SortByName(_)
SortByName(items) ==
    IF items = <<>> THEN <<>>
    ELSE InsertByName(SortByName(SubSeq(items, 1, Len(items) - 1)), items[Len(items)])

\* sorted(..., key=last_opened_at or "", reverse=True): stable, descending.
RECURSIVE InsertByOpenedDesc(_, _)
InsertByOpenedDesc(sorted, x) ==
    IF sorted = <<>> THEN <<x>>
    ELSE IF StrLess(OpenedKey(Head(sorted)), OpenedKey(x)) THEN <<x>> \o sorted
    ELSE <<Head(sorted)>> \o InsertByOpenedDesc(Tail(sorted), x)

RECURSIVE SortByOpenedDesc(_)
SortByOpenedDesc(items) ==
    IF items = <<>> THEN <<>>
    ELSE InsertByOpenedDesc(SortByOpenedDesc(SubSeq(items, 1, Len(items) - 1)),
                            items[Len(items)])

\* list_projects with its two sorts applied in the opposite order
list_projects_name_last(file, query) ==
    LET config == load_state(file)
        loaded == load_projects(config.projects)
        q == lower(strip(query))
        found == IF q # <<>>
                 THEN SelectSeq(loaded, LAMBDA project : matches_query(project, q))
                 ELSE loaded
    IN  SortByName(SortByOpenedDesc(found))

list_projects(file, query) ==
    LET config == load_state(file)
        loaded == load_projects(config.projects)
        q == lower(strip(query))
        found == IF q # <<>>
                 THEN SelectSeq(loaded, LAMBDA project : matches_query(project, q))
                 ELSE loaded
    IN  SortByOpenedDesc(SortByName(found))

\* create_project that saves without advancing next_project_id
create_project_no_increment(file, now, name, path, space, tags) ==
    LET config == load_state(file)
        project_id == config.next_project_id
    IN  save_config(
            [config EXCEPT
                !.projects = Append(@,
                    [t |-> "dict",
                     id |-> project_id,
                     name |-> name,
                     path |-> path,
                     space |-> normalize_space(space),
                     tags |-> normalize_tags(tags),
                     created_at |-> now,
                     updated_at |-> now,
                     last_opened_at |-> None])])

\* create_project that takes the id from the records present (_next_project_id)
\* instead of from the stored counter
create_project_reusing_ids(file, now, name, path, space, tags) ==
    LET config == load_state(file)
        project_id == JInt(next_project_id(config.projects))
    IN  save_config(
            [config EXCEPT
                !.next_project_id = JInt(project_id.v + 1),
                !.projects = Append(@,
                    [t |-> "dict",
                     id |-> project_id,
                     name |-> name,
                     path |-> path,
                     space |-> normalize_space(space),
                     tags |-> normalize_tags(tags),
                     created_at |-> now,
                     updated_at |-> now,
                     last_opened_at |-> None])])

create_project(file, now, name, path, space, tags) ==
    LET config == load_state(file)
        project_id == config.next_project_id
    IN  save_config(
            [config EXCEPT
                !.next_project_id = JInt(project_id.v + 1),
                !.projects = Append(@,
                    [t |-> "dict",
                     id |-> project_id,
                     name |-> name,
                     path |-> path,
                     space |-> normalize_space(space),
                     tags |-> normalize_tags(tags),
                     created_at |-> now,
                     updated_at |-> now,
                     last_opened_at |-> None])])

\* _find_project: index of the first dict whose id is project_id, 0 when none.
find_project(items, project_id) ==
    LET hits == {i \in 1..Len(items) :
                    items[i].t = "dict" /\ project_id_of(items[i]) = project_id}
    IN  IF hits = {} THEN 0 ELSE CHOOSE i \in hits : \A j \in hits : i <= j

\* update_project that saves also when no record has the id
update_project_saving_always(file, now, project_id, name, path, space, tags) ==
    LET config == load_state(file)
        i == find_project(config.projects, project_id)
    IN  IF i = 0 THEN save_config(config)
        ELSE save_config(
                [config EXCEPT
                    !.projects[i].name = name,
                    !.projects[i].path = path,
                    !.projects[i].space = normalize_space(space),
                    !.projects[i].tags = normalize_tags(tags),
                    !.projects[i].updated_at = now])

update_project(file, now, project_id, name, path, space, tags) ==
    LET config == load_state(file)
        i == find_project(config.projects, project_id)
    IN  IF i = 0 THEN file
        ELSE save_config(
                [config EXCEPT
                    !.projects[i].name = name,
                    !.projects[i].path = path,
                    !.projects[i].space = normalize_space(space),
                    !.projects[i].tags = normalize_tags(tags),
                    !.projects[i].updated_at = now])

\* delete_project that saves also when nothing was removed
delete_project_saving_always(file, project_id) ==
    LET config == load_state(file)
        kept == SelectSeq(config.projects,
                    LAMBDA item : ~(item.t = "dict" /\ project_id_of(item) = project_id))
    IN  save_config([config EXCEPT !.projects = kept])

delete_project(file, project_id) ==
    LET config == load_state(file)
        original == config.projects
        kept == SelectSeq(original,
                    LAMBDA item : ~(item.t = "dict" /\ project_id_of(item) = project_id))
    IN  IF Len(kept) # Len(original)
        THEN save_config([config EXCEPT !.projects = kept])
        ELSE file

\* touch_opened that stamps last_opened_at and leaves updated_at
touch_opened_only(file, now, project_id) ==
    LET config == load_state(file)
        i == find_project(config.projects, project_id)
    IN  IF i = 0 THEN file
        ELSE save_config([config EXCEPT !.projects[i].last_opened_at = Some(now)])

touch_opened(file, now, project_id) ==
    LET config == load_state(file)
        i == find_project(config.projects, project_id)
    IN  IF i = 0 THEN file
        ELSE save_config(
                [config EXCEPT
                    !.projects[i].last_opened_at = Some(now),
                    !.projects[i].updated_at = now])

ensure_schema(file) == save_config(load_state(file))

list_project_paths(file) ==
    LET items == load_state(file).projects
    IN  {items[i].path : i \in {j \in 1..Len(items) :
                                   items[j].t = "dict" /\ items[j].path # <<>>}}

(***************************************************************************)
(* The file system that import_projects scans, and the inputs of the       *)
(* operations.                                                             *)
(***************************************************************************)
Child(name, is_dir, resolved) == [name |-> name, is_dir |-> is_dir, resolved |-> resolved]

\* The parent directories a user can name, each with iterdir() in disk order.
Parents ==
    { [path |-> <<"/", "w">>, name |-> <<"w">>, is_dir |-> TRUE,
       children |-> << Child(<<"B">>, TRUE, <<"/", "w", "/", "B">>),
                       Child(<<".", "c">>, TRUE, <<"/", "w", "/", ".", "c">>),
                       Child(<<"d">>, FALSE, <<"/", "w", "/", "d">>),
                       Child(<<"a">>, TRUE, <<"/", "w", "/", "a">>) >>],
      [path |-> <<"/", "z">>, name |-> <<"z">>, is_dir |-> TRUE, children |-> <<>>],
      [path |-> <<"/", "q">>, name |-> <<"q">>, is_dir |-> FALSE, children |-> <<>>] }

\* What a caller passes as (name, path, space, tags).
Forms ==
    { [name |-> <<"a">>, path |-> <<"/", "w", "/", "a">>, space |-> <<>>, tags |-> <<>>],
      [name |-> <<"b">>, path |-> <<"/", "q">>, space |-> <<"w">>, tags |-> <<>>],
      [name |-> <<"B">>, path |-> <<"/", "q">>, space |-> <<" ">>,
       tags |-> << <<"p">>, <<" ">>, <<"p">> >>] }

ImportSpaces == { <<>>, <<"B">> }

ProjectIds == 1..MaxProjectId

(***************************************************************************)
(* import_projects (application/project_service.py).                       *)
(***************************************************************************)
NoSummary ==
    [added |-> 0, skipped_existing |-> 0, skipped_hidden |-> 0, total_children |-> 0]

startswith_dot(name) == name # <<>> /\ Head(name) = "."

\* import_loop that skips hidden children without counting them
RECURSIVE import_loop_uncounted_hidden(_, _, _, _, _)
import_loop_uncounted_hidden(children, acc, now, space_value, tags) ==
    IF children = <<>> THEN acc
    ELSE LET child == Head(children)
             rest == Tail(children)
         IN  IF startswith_dot(child.name)
             THEN import_loop_uncounted_hidden(rest, acc, now, space_value, tags)
             ELSE IF child.resolved \in acc.existing_paths
             THEN import_loop_uncounted_hidden(rest,
                      [acc EXCEPT !.skipped_existing = @ + 1], now, space_value, tags)
             ELSE import_loop_uncounted_hidden(rest,
                      [acc EXCEPT
                          !.file = create_project(@, now, child.name, child.resolved,
                                                  space_value, tags),
                          !.existing_paths = @ \cup {child.resolved},
                          !.added = @ + 1],
                      now, space_value, tags)

\* import_loop that checks every child against the paths read before the loop
RECURSIVE import_loop_stale_paths(_, _, _, _, _)
import_loop_stale_paths(children, acc, now, space_value, tags) ==
    IF children = <<>> THEN acc
    ELSE LET child == Head(children)
             rest == Tail(children)
         IN  IF startswith_dot(child.name)
             THEN import_loop_stale_paths(rest,
                      [acc EXCEPT !.skipped_hidden = @ + 1], now, space_value, tags)
             ELSE IF child.resolved \in acc.existing_paths
             THEN import_loop_stale_paths(rest,
                      [acc EXCEPT !.skipped_existing = @ + 1], now, space_value, tags)
             ELSE import_loop_stale_paths(rest,
                      [acc EXCEPT
                          !.file = create_project(@, now, child.name, child.resolved,
                                                  space_value, tags),
                          !.added = @ + 1],
                      now, space_value, tags)

\* The loop over the sorted children; acc carries the file, the in-memory path
\* set and the three counters.
RECURSIVE import_loop(_, _, _, _, _)
import_loop(children, acc, now, space_value, tags) ==
    IF children = <<>> THEN acc
    ELSE LET child == Head(children)
             rest == Tail(children)
         IN  IF startswith_dot(child.name)
             THEN import_loop(rest,
                      [acc EXCEPT !.skipped_hidden = @ + 1], now, space_value, tags)
             ELSE IF child.resolved \in acc.existing_paths
             THEN import_loop(rest,
                      [acc EXCEPT !.skipped_existing = @ + 1], now, space_value, tags)
             ELSE import_loop(rest,
                      [acc EXCEPT
                          !.file = create_project(@, now, child.name, child.resolved,
                                                  space_value, tags),
                          !.existing_paths = @ \cup {child.resolved},
                          !.added = @ + 1],
                      now, space_value, tags)

\* import_projects that counts the children after dropping the hidden ones
import_projects_total_filtered(file, now, parent, space, tags) ==
    IF ~parent.is_dir
    THEN [raised |-> TRUE, file |-> file, summary |-> NoSummary, space |-> <<>>]
    ELSE LET children == SelectSeq(parent.children, LAMBDA child : child.is_dir)
             space_value ==
                 IF strip(space) # <<>> THEN strip(space)
                 ELSE IF strip(parent.name) # <<>> THEN strip(parent.name)
                 ELSE DEFAULT_SPACE
             done == import_loop(SortByName(children),
                         [file |-> file,
                          existing_paths |-> list_project_paths(file),
                          added |-> 0, skipped_existing |-> 0, skipped_hidden |-> 0],
                         now, space_value, tags)
         IN  [raised |-> FALSE,
              file |-> done.file,
              summary |-> [added |-> done.added,
                           skipped_existing |-> done.skipped_existing,
                           skipped_hidden |-> done.skipped_hidden,
                           total_children |-> Len(children) - done.skipped_hidden],
              space |-> space_value]

\* import_projects that treats a parent that is no directory as an empty one
import_projects_lenient(file, now, parent, space, tags) ==
    IF ~parent.is_dir
    THEN [raised |-> FALSE, file |-> file,
          summary |-> [added |-> 0, skipped_existing |-> 0, skipped_hidden |-> 0,
                       total_children |-> 0],
          space |-> <<>>]
    ELSE LET children == SelectSeq(parent.children, LAMBDA child : child.is_dir)
             space_value ==
                 IF strip(space) # <<>> THEN strip(space)
                 ELSE IF strip(parent.name) # <<>> THEN strip(parent.name)
                 ELSE DEFAULT_SPACE
             done == import_loop(SortByName(children),
                         [file |-> file,
                          existing_paths |-> list_project_paths(file),
                          added |-> 0, skipped_existing |-> 0, skipped_hidden |-> 0],
                         now, space_value, tags)
         IN  [raised |-> FALSE,
              file |-> done.file,
              summary |-> [added |-> done.added,
                           skipped_existing |-> done.skipped_existing,
                           skipped_hidden |-> done.skipped_hidden,
                           total_children |-> Len(children)],
              space |-> space_value]

\* The result: raised (FileNotFoundError), the file afterwards and the summary.
import_projects(file, now, parent, space, tags) ==
    IF ~parent.is_dir
    THEN [raised |-> TRUE, file |-> file, summary |-> NoSummary, space |-> <<>>]
    ELSE LET children == SelectSeq(parent.children, LAMBDA child : child.is_dir)
             space_value ==
                 IF strip(space) # <<>> THEN strip(space)
                 ELSE IF strip(parent.name) # <<>> THEN strip(parent.name)
                 ELSE DEFAULT_SPACE
             done == import_loop(SortByName(children),
                         [file |-> file,
                          existing_paths |-> list_project_paths(file),
                          added |-> 0, skipped_existing |-> 0, skipped_hidden |-> 0],
                         now, space_value, tags)
         IN  [raised |-> FALSE,
              file |-> done.file,
              summary |-> [added |-> done.added,
                           skipped_existing |-> done.skipped_existing,
                           skipped_hidden |-> done.skipped_hidden,
                           total_children |-> Len(children)],
              space |-> space_value]

(***************************************************************************)
(* ProjectTerminal (presentation/terminal.py) and the terminal side of     *)
(* DevHavenApp (presentation/app.py).  A terminal is the record            *)
(* [emulator, send_queue, spawned]; a queue item is <<"stdin", text>>.     *)
(***************************************************************************)
Cwd == <<"/", "w">>

\* Path(path).expanduser().resolve().as_posix(), with no "~", ".." or symlink.
normalize_terminal_path(path) ==
    IF path # <<>> /\ Head(path) = "/" THEN path ELSE Cwd \o <<"/">> \o path

RECURSIVE escape_quotes(_)
escape_quotes(path) ==
    IF path = <<>> THEN <<>>
    ELSE IF Head(path) = "\"" THEN <<"\\", "\"">> \o escape_quotes(Tail(path))
    ELSE <<Head(path)>> \o escape_quotes(Tail(path))

quote_terminal_path(path) == <<"\"">> \o escape_quotes(path) \o <<"\"">>

build_cd_command(path) ==
    <<"c", "d", " ">> \o quote_terminal_path(normalize_terminal_path(path)) \o <<"\n">>

Stdin(text) == <<"stdin", text>>

\* ProjectTerminal.start
\* start without the "emulator is not None" early return
start_unguarded(term) ==
    [emulator |-> TRUE, send_queue |-> Some(<<>>), spawned |-> term.spawned + 1]

start(term) ==
    IF term.emulator THEN term
    ELSE [emulator |-> TRUE, send_queue |-> Some(<<>>), spawned |-> term.spawned + 1]

\* a put that adds at the head of the queue
put_front(queue, item) == Some(<<item>> \o queue[1])

\* send_queue.put / put_nowait on an unbounded asyncio.Queue
put(queue, item) == Some(Append(queue[1], item))

\* _update_terminal_cwd that makes a queue when the terminal has none yet
update_terminal_cwd_lazy_queue(queue, path) ==
    IF path = None \/ path[1] = <<>> THEN queue
    ELSE IF queue = None THEN put(Some(<<>>), Stdin(build_cd_command(path[1])))
    ELSE put(queue, Stdin(build_cd_command(path[1])))

\* DevHavenApp._update_terminal_cwd; path is Optional[str]
update_terminal_cwd(queue, path) ==
    IF path = None \/ path[1] = <<>> THEN queue
    ELSE IF queue = None THEN queue
    ELSE put(queue, Stdin(build_cd_command(path[1])))

\* Terminal.ctrl_keys of the widget library: the keys it translates itself.
ctrl_keys(key) ==
    IF key = <<"u", "p">> THEN Some(<<"ESC", "O", "A">>) ELSE None

Chr(n) ==
    CASE n = 1 -> "^A" [] n = 2 -> "^B" [] n = 3 -> "^C" [] n = 26 -> "^Z"
      [] n = 35 -> "#" [] n = 58 -> ":"

startswith_ctrl(key) == Len(key) >= 5 /\ SubSeq(key, 1, 5) = <<"c", "t", "r", "l", "+">>

isalpha(c) == c \in {"a", "b", "c", "d", "p", "q", "w", "z", "B", "W"}

\* key_char that subtracts 64 from the letter as typed, without lower-casing it
key_char_upper_offset(event) ==
    LET table == ctrl_keys(event.key)
        rest == SubSeq(event.key, 6, Len(event.key))
        ctrl == IF table = None /\ startswith_ctrl(event.key)
                   /\ Len(rest) = 1 /\ isalpha(rest[1])
                THEN Some(<<Chr(Code(rest[1]) - 64)>>)
                ELSE table
        char == IF ctrl = None THEN event.character ELSE ctrl
    IN  IF char # None /\ char[1] # <<>> THEN char ELSE None

\* ProjectTerminal.on_key: the character(s) it puts on the queue, None when it
\* puts nothing.  An event is [key, character], character an Optional[str].
key_char(event) ==
    LET table == ctrl_keys(event.key)
        rest == SubSeq(event.key, 6, Len(event.key))
        ctrl == IF table = None /\ startswith_ctrl(event.key)
                   /\ Len(rest) = 1 /\ isalpha(rest[1])
                THEN Some(<<Chr(Code(LowerChar(rest[1])) - 96)>>)
                ELSE table
        char == IF ctrl = None THEN event.character ELSE ctrl
    IN  IF char # None /\ char[1] # <<>> THEN char ELSE None

RELEASE_FOCUS_KEY == <<"c", "t", "r", "l", "+", "f", "1">>

on_key(term, event) ==
    IF ~term.emulator THEN term
    ELSE IF event.key = RELEASE_FOCUS_KEY THEN term
    ELSE IF key_char(event) = None THEN term
    ELSE [term EXCEPT !.send_queue = put(@, Stdin(key_char(event)[1]))]

KeyEvents ==
    { [key |-> <<"a">>, character |-> Some(<<"a">>)],
      [key |-> <<"c", "t", "r", "l", "+", "c">>, character |-> None],
      [key |-> <<"c", "t", "r", "l", "+", "B">>, character |-> None],
      [key |-> <<"c", "t", "r", "l", "+", "z">>, character |-> None],
      [key |-> <<"c", "t", "r", "l", "+", "1">>, character |-> None],
      [key |-> <<"q">>, character |-> Some(<<>>)],
      [key |-> <<"u", "p">>, character |-> None],
      [key |-> <<"f", "5">>, character |-> None],
      [key |-> RELEASE_FOCUS_KEY, character |-> None] }

(***************************************************************************)
(* The selection controller: DevHavenApp (presentation/app.py).  An app is *)
(* the record of the fields a handler reads and writes; "call" remembers   *)
(* which set_selected_* the handler ended with.                            *)
(***************************************************************************)
TreeItemProject(project_id) == [kind |-> "project", id |-> project_id, space |-> <<>>]
TreeItemSpace(name) == [kind |-> "space", id |-> 0, space |-> name]
NoData == [kind |-> "none", id |-> 0, space |-> <<>>]

\* project_map.get(project_id): the last project listed under that id.
project_map_get(projs, project_id) ==
    LET hits == {i \in 1..Len(projs) : projs[i].id = project_id}
    IN  IF hits = {} THEN None ELSE Some(projs[CHOOSE i \in hits : \A j \in hits : j <= i])

\* set_selected_project that changes directory only when the project id changes
set_selected_project_on_change(app, project_id) ==
    LET project == IF project_id # None THEN project_map_get(app.projects, project_id[1])
                   ELSE None
    IN  [app EXCEPT
            !.selected_project_id = project_id,
            !.selected_space = None,
            !.call = IF project_id = None THEN "none" ELSE "project",
            !.send_queue = IF project # None /\ project_id # app.selected_project_id
                           THEN update_terminal_cwd(@, Some(project[1].path))
                           ELSE @]

set_selected_project(app, project_id) ==
    LET project == IF project_id # None THEN project_map_get(app.projects, project_id[1])
                   ELSE None
    IN  [app EXCEPT
            !.selected_project_id = project_id,
            !.selected_space = None,
            !.call = IF project_id = None THEN "none" ELSE "project",
            !.send_queue = IF project # None
                           THEN update_terminal_cwd(@, Some(project[1].path))
                           ELSE @]

set_selected_space(app, space) ==
    [app EXCEPT !.selected_space = space, !.selected_project_id = None, !.call = "space"]

\* The keys of the dict "spaces", in first-appearance order.
RECURSIVE space_keys(_, _)
space_keys(projs, seen) ==
    IF projs = <<>> THEN seen
    ELSE IF \E i \in 1..Len(seen) : seen[i] = Head(projs).space
         THEN space_keys(Tail(projs), seen)
         ELSE space_keys(Tail(projs), Append(seen, Head(projs).space))

RECURSIVE InsertByLower(_, _)
InsertByLower(sorted, x) ==
    IF sorted = <<>> THEN <<x>>
    ELSE IF StrLess(lower(x), lower(Head(sorted))) THEN <<x>> \o sorted
    ELSE <<Head(sorted)>> \o InsertByLower(Tail(sorted), x)

RECURSIVE SortByLower(_)
SortByLower(names) ==
    IF names = <<>> THEN <<>>
    ELSE InsertByLower(SortByLower(SubSeq(names, 1, Len(names) - 1)), names[Len(names)])

\* space_nodes: the space names in tree order.
space_nodes(projs) == SortByLower(space_keys(projs, <<>>))

\* project_nodes: the projects in tree order, space by space.
RECURSIVE nodes_of_spaces(_, _)
nodes_of_spaces(spaces, projs) ==
    IF spaces = <<>> THEN <<>>
    ELSE SortByName(SelectSeq(projs, LAMBDA project : project.space = Head(spaces)))
         \o nodes_of_spaces(Tail(spaces), projs)

\* project nodes registered in list order, without the grouping by space
project_nodes_list_order(projs) == projs

project_nodes(projs) == nodes_of_spaces(space_nodes(projs), projs)

InNodes(nodes, project_id) == \E i \in 1..Len(nodes) : nodes[i].id = project_id
InSpaces(spaces, name) == \E i \in 1..Len(spaces) : spaces[i] = name

\* refresh_projects that keeps the previous project without looking it up
refresh_projects_keeping_previous(app, file, query) ==
    LET text == IF query # None THEN query[1] ELSE app.query_text
        listed == list_projects(file, text)
        loaded == [app EXCEPT !.query_text = text, !.projects = listed]
        previous_project == app.selected_project_id
        previous_space == app.selected_space
        pnodes == project_nodes(listed)
        snodes == space_nodes(listed)
    IN  IF previous_project # None
        THEN set_selected_project(loaded, previous_project)
        ELSE IF previous_space # None /\ InSpaces(snodes, previous_space[1])
        THEN set_selected_space(loaded, previous_space)
        ELSE IF pnodes # <<>>
        THEN set_selected_project(loaded, Some(pnodes[1].id))
        ELSE IF snodes # <<>>
        THEN set_selected_space(loaded, Some(snodes[1]))
        ELSE set_selected_project(loaded, None)

\* refresh_projects that reads the previous selection after the tree was cleared
refresh_projects_forgetful(app, file, query) ==
    LET text == IF query # None THEN query[1] ELSE app.query_text
        listed == list_projects(file, text)
        loaded == [app EXCEPT !.query_text = text, !.projects = listed]
        pnodes == project_nodes(listed)
        snodes == space_nodes(listed)
    IN  IF pnodes # <<>>
        THEN set_selected_project(loaded, Some(pnodes[1].id))
        ELSE IF snodes # <<>>
        THEN set_selected_space(loaded, Some(snodes[1]))
        ELSE set_selected_project(loaded, None)

\* DevHavenApp.refresh_projects; query is Optional[str]
\* refresh_projects that falls back to the first space before the first project
refresh_projects_space_fallback(app, file, query) ==
    LET text == IF query # None THEN query[1] ELSE app.query_text
        listed == list_projects(file, text)
        loaded == [app EXCEPT !.query_text = text, !.projects = listed]
        previous_project == app.selected_project_id
        previous_space == app.selected_space
        pnodes == project_nodes(listed)
        snodes == space_nodes(listed)
    IN  IF previous_project # None /\ InNodes(pnodes, previous_project[1])
        THEN set_selected_project(loaded, previous_project)
        ELSE IF previous_space # None /\ InSpaces(snodes, previous_space[1])
        THEN set_selected_space(loaded, previous_space)
        ELSE IF snodes # <<>>
        THEN set_selected_space(loaded, Some(snodes[1]))
        ELSE IF pnodes # <<>>
        THEN set_selected_project(loaded, Some(pnodes[1].id))
        ELSE set_selected_project(loaded, None)

refresh_projects(app, file, query) ==
    LET text == IF query # None THEN query[1] ELSE app.query_text
        listed == list_projects(file, text)
        loaded == [app EXCEPT !.query_text = text, !.projects = listed]
        previous_project == app.selected_project_id
        previous_space == app.selected_space
        pnodes == project_nodes(listed)
        snodes == space_nodes(listed)
    IN  IF previous_project # None /\ InNodes(pnodes, previous_project[1])
        THEN set_selected_project(loaded, previous_project)
        ELSE IF previous_space # None /\ InSpaces(snodes, previous_space[1])
        THEN set_selected_space(loaded, previous_space)
        ELSE IF pnodes # <<>>
        THEN set_selected_project(loaded, Some(pnodes[1].id))
        ELSE IF snodes # <<>>
        THEN set_selected_space(loaded, Some(snodes[1]))
        ELSE set_selected_project(loaded, None)

handle_tree_selection(app, data) ==
    IF data.kind = "project" THEN set_selected_project(app, Some(data.id))
    ELSE IF data.kind = "space" THEN set_selected_space(app, Some(data.space))
    ELSE set_selected_project(app, None)

get_selected_project(app) ==
    IF app.selected_project_id = None THEN None
    ELSE project_map_get(app.projects, app.selected_project_id[1])

\* The data of the nodes of the tree built from projs.
TreeData(projs) ==
    {TreeItemProject(projs[i].id) : i \in 1..Len(projs)}
    \cup {TreeItemSpace(projs[i].space) : i \in 1..Len(projs)}

(***************************************************************************)
(* Initial states.                                                         *)
(***************************************************************************)
\* DevHavenApp.__init__ and Terminal.__init__
AppInit ==
    /\ mounted = FALSE
    /\ projects = <<>>
    /\ selected_project_id = None
    /\ selected_space = None
    /\ query_text = <<>>
    /\ pending = None

TermInit ==
    /\ emulator = FALSE
    /\ send_queue = None
    /\ shell = "unstarted"
    /\ spawned = 0
    /\ pty_input = <<>>
    /\ enqueued = <<>>

NoLast == [op |-> "init"]

(***************************************************************************)
(* The repository called directly, in any order (specification RepoSpec).  *)
(***************************************************************************)
\* History of create_project: the id of each appended record, with the largest
\* id that a record before it in the list holds.
ItemIds(items) == [i \in 1..Len(items) |-> project_id_of(items[i])]

MaxOf(ids) == IF ids = {} THEN 0 ELSE CHOOSE m \in ids : \A n \in ids : n <= m

Appended(before, after) ==
    LET old == load_state(before).projects
        new == load_state(after).projects
    IN  [i \in 1..(Len(new) - Len(old)) |->
            [id |-> project_id_of(new[Len(old) + i]),
             max_before |-> MaxOf({project_id_of(new[j]) : j \in 1..(Len(old) + i - 1)})]]

NextIdOf(file) == load_state(file).next_project_id.v

Tick ==
    /\ clock < MaxClock
    /\ clock' = clock + 1
    /\ UNCHANGED <<store, assigned, last>>
    /\ UNCHANGED appVars
    /\ UNCHANGED termVars

EnsureSchema ==
    /\ store' = ensure_schema(store)
    /\ UNCHANGED <<clock, assigned, last>>
    /\ UNCHANGED appVars
    /\ UNCHANGED termVars

CreateProject ==
    \E form \in Forms :
        /\ NextIdOf(store) <= MaxProjectId
        /\ store' = create_project(store, now_iso(clock), form.name, form.path,
                                   form.space, form.tags)
        /\ assigned' = assigned \o Appended(store, store')
        /\ UNCHANGED <<clock, last>>
        /\ UNCHANGED appVars
        /\ UNCHANGED termVars

UpdateProject ==
    \E project_id \in ProjectIds, form \in Forms :
        /\ store' = update_project(store, now_iso(clock), project_id, form.name,
                                   form.path, form.space, form.tags)
        /\ UNCHANGED <<clock, assigned, last>>
        /\ UNCHANGED appVars
        /\ UNCHANGED termVars

DeleteProject ==
    \E project_id \in ProjectIds :
        /\ store' = delete_project(store, project_id)
        /\ UNCHANGED <<clock, assigned, last>>
        /\ UNCHANGED appVars
        /\ UNCHANGED termVars

TouchOpened ==
    \E project_id \in ProjectIds :
        /\ store' = touch_opened(store, now_iso(clock), project_id)
        /\ UNCHANGED <<clock, assigned, last>>
        /\ UNCHANGED appVars
        /\ UNCHANGED termVars

ImportProjects ==
    \E parent \in Parents, space \in ImportSpaces :
        LET result == import_projects(store, now_iso(clock), parent, space, <<>>)
        IN  /\ NextIdOf(result.file) <= MaxProjectId + 1
            /\ store' = result.file
            /\ assigned' = assigned \o Appended(store, store')
            /\ UNCHANGED <<clock, last>>
            /\ UNCHANGED appVars
            /\ UNCHANGED termVars

RepoInit ==
    /\ store = AbsentStore
    /\ clock = 0
    /\ assigned = <<>>
    /\ last = NoLast
    /\ AppInit
    /\ TermInit

RepoNext ==
    \/ Tick
    \/ EnsureSchema
    \/ CreateProject
    \/ UpdateProject
    \/ DeleteProject
    \/ TouchOpened
    \/ ImportProjects

RepoSpec == RepoInit /\ [][RepoNext]_vars

(***************************************************************************)
(* The repository called directly with every call recorded (FrameSpec):    *)
(* last holds the operation, its arguments, the clock reading, the file    *)
(* before the call and the ids touch_opened has found so far.              *)
(***************************************************************************)
NoForm == [name |-> <<>>, path |-> <<>>, space |-> <<>>, tags |-> <<>>]

HoldsId(file, project_id) ==
    \E i \in 1..Len(load_state(file).projects) :
        /\ load_state(file).projects[i].t = "dict"
        /\ project_id_of(load_state(file).projects[i]) = project_id

FrameLast(op, project_id, form, touched) ==
    [op |-> op, project_id |-> project_id, form |-> form, now |-> now_iso(clock),
     before |-> store, touched |-> touched]

FrameUnchanged ==
    /\ UNCHANGED <<clock, assigned>>
    /\ UNCHANGED appVars
    /\ UNCHANGED termVars

FrameTick ==
    /\ clock < MaxClock
    /\ clock' = clock + 1
    /\ UNCHANGED <<store, assigned, last>>
    /\ UNCHANGED appVars
    /\ UNCHANGED termVars

FrameEnsureSchema ==
    /\ store' = ensure_schema(store)
    /\ last' = FrameLast("ensure", 0, NoForm, last.touched)
    /\ FrameUnchanged

\* list_projects reads the file and returns the list; it writes nothing.
FrameListProjects ==
    /\ store' = store
    /\ last' = FrameLast("list", 0, NoForm, last.touched)
    /\ FrameUnchanged

FrameCreate ==
    \E form \in Forms :
        /\ NextIdOf(store) <= MaxProjectId
        /\ store' = create_project(store, now_iso(clock), form.name, form.path,
                                   form.space, form.tags)
        /\ last' = FrameLast("create", 0, form, last.touched)
        /\ FrameUnchanged

FrameUpdate ==
    \E project_id \in ProjectIds, form \in Forms :
        /\ store' = update_project(store, now_iso(clock), project_id, form.name,
                                   form.path, form.space, form.tags)
        /\ last' = FrameLast("update", project_id, form, last.touched)
        /\ FrameUnchanged

FrameDelete ==
    \E project_id \in ProjectIds :
        /\ store' = delete_project(store, project_id)
        /\ last' = FrameLast("delete", project_id, NoForm, last.touched)
        /\ FrameUnchanged

FrameTouch ==
    \E project_id \in ProjectIds :
        /\ store' = touch_opened(store, now_iso(clock), project_id)
        /\ last' = FrameLast("touch", project_id, NoForm,
                        IF HoldsId(store, project_id)
                        THEN last.touched \cup {project_id} ELSE last.touched)
        /\ FrameUnchanged

FrameImport ==
    \E parent \in Parents, space \in ImportSpaces :
        LET result == import_projects(store, now_iso(clock), parent, space, <<>>)
        IN  /\ NextIdOf(result.file) <= MaxProjectId + 1
            /\ store' = result.file
            /\ last' = FrameLast("import", 0, NoForm, last.touched)
            /\ FrameUnchanged

FrameInit ==
    /\ store = AbsentStore
    /\ clock = 0
    /\ assigned = <<>>
    /\ last = [op |-> "init", project_id |-> 0, form |-> NoForm, now |-> now_iso(0),
               before |-> AbsentStore, touched |-> {}]
    /\ AppInit
    /\ TermInit

FrameNext ==
    \/ FrameTick
    \/ FrameEnsureSchema
    \/ FrameListProjects
    \/ FrameCreate
    \/ FrameUpdate
    \/ FrameDelete
    \/ FrameTouch
    \/ FrameImport

FrameSpec == FrameInit /\ [][FrameNext]_vars

(***************************************************************************)
(* The repository with a longer list and a still clock (CatalogSpec): up   *)
(* to MaxListed records, every call recorded in last as in FrameSpec.      *)
(***************************************************************************)
ListedIds == 1..MaxListed

\* The forms of Forms, one whose tags need trimming, dropping and de-duplication,
\* and one whose path ends in a blank.
CatalogForms ==
    Forms \cup
    { [name |-> <<"a">>, path |-> <<"/", "w", "/", "a">>, space |-> <<" ", "w", " ">>,
       tags |-> << <<" ", "p">>, <<"q", " ">>, <<>>, <<"p">>, <<"P">> >>],
      [name |-> <<"b">>, path |-> <<"/", "z", " ">>, space |-> <<>>, tags |-> <<>>] }

CatalogCreate ==
    \E form \in CatalogForms :
        /\ NextIdOf(store) <= MaxListed
        /\ store' = create_project(store, now_iso(clock), form.name, form.path,
                                   form.space, form.tags)
        /\ last' = FrameLast("create", 0, form, last.touched)
        /\ FrameUnchanged

CatalogUpdate ==
    \E project_id \in ListedIds, form \in Forms :
        /\ store' = update_project(store, now_iso(clock), project_id, form.name,
                                   form.path, form.space, form.tags)
        /\ last' = FrameLast("update", project_id, form, last.touched)
        /\ FrameUnchanged

CatalogDelete ==
    \E project_id \in ListedIds :
        /\ store' = delete_project(store, project_id)
        /\ last' = FrameLast("delete", project_id, NoForm, last.touched)
        /\ FrameUnchanged

CatalogTouch ==
    \E project_id \in ListedIds :
        /\ store' = touch_opened(store, now_iso(clock), project_id)
        /\ last' = FrameLast("touch", project_id, NoForm,
                        IF HoldsId(store, project_id)
                        THEN last.touched \cup {project_id} ELSE last.touched)
        /\ FrameUnchanged

\* list_projects(query) and list_project_paths() on the same file.  Search texts:
\* empty, blank, padded and upper case, one that spans the end of the name and
\* the start of the path, one inside the comma-joined tags.
ListQueries ==
    { <<>>, <<" ">>, <<"Q", " ">>, <<"b">>, <<"a", "/">>, <<"q", ",", "P">> }

CatalogList ==
    \E query \in ListQueries :
        /\ store' = store
        /\ last' = [op |-> "list", project_id |-> 0, form |-> NoForm,
                    now |-> now_iso(clock), before |-> store, touched |-> last.touched,
                    query |-> query, listed |-> list_projects(store, query),
                    paths |-> list_project_paths(store)]
        /\ FrameUnchanged

CatalogNext ==
    \/ CatalogCreate
    \/ CatalogUpdate
    \/ CatalogDelete
    \/ CatalogTouch
    \/ CatalogList

CatalogSpec == FrameInit /\ [][CatalogNext]_vars

(***************************************************************************)
(* The repository over a file that something else wrote (RawSpec): every   *)
(* content load_config can meet.                                           *)
(***************************************************************************)
RawItem(id, name) ==
    [t |-> "dict", id |-> id, name |-> name, path |-> <<"/", "q">>, space |-> <<>>,
     tags |-> <<>>, created_at |-> now_iso(0), updated_at |-> now_iso(0),
     last_opened_at |-> None]

\* A list element that is not a JSON object.
NonDictItem == [RawItem(JMissing, <<>>) EXCEPT !.t = "other"]

RawProjects ==
    { JAbsentKey,
      [t |-> "other", v |-> <<>>],
      JList(<<RawItem(JInt(2), <<"a">>)>>),
      JList(<<RawItem(JInt(1), <<"U+D800">>)>>),
      JList(<<NonDictItem, RawItem([t |-> "numstr", v |-> 1], <<"b">>)>>),
      JList(<<RawItem([t |-> "bad", v |-> 0], <<"a">>), RawItem(JInt(1), <<" ">>)>>) }

RawNextIds ==
    { JMissing, [t |-> "null", v |-> 0], [t |-> "bad", v |-> 0],
      [t |-> "float", v |-> 2], [t |-> "bool", v |-> 1],
      JInt(0), JInt(1), JInt(2) }

RawStores ==
    { AbsentStore,
      [kind |-> "invalid", doc |-> DEFAULT_CONFIG],
      [kind |-> "nonobject", doc |-> DEFAULT_CONFIG] }
    \cup { [kind |-> "object",
            doc |-> [open_command |-> JAbsentKey, projects |-> items,
                     next_project_id |-> next_id]] :
           items \in RawProjects, next_id \in RawNextIds }

RawInit ==
    /\ store \in RawStores
    /\ clock = 0
    /\ assigned = <<>>
    /\ last = NoLast
    /\ AppInit
    /\ TermInit

RawSpec == RawInit /\ [][RepoNext]_vars

(***************************************************************************)
(* Imports among creations and deletions (ImportSpec): each import with    *)
(* the file it found, the file it left, its summary, and the import that   *)
(* ran before it.                                                          *)
(***************************************************************************)
\* A directory in which "q" is a symbolic link to its sibling "p".
LinkedParent ==
    [path |-> <<"/", "p">>, name |-> <<"p">>, is_dir |-> TRUE,
     children |-> << Child(<<"q">>, TRUE, <<"/", "p", "/", "p">>),
                     Child(<<"p">>, TRUE, <<"/", "p", "/", "p">>) >>]

ImportParents == Parents \cup {LinkedParent}

ImportLogged ==
    \E parent \in ImportParents, space \in ImportSpaces :
        LET result == import_projects(store, now_iso(clock), parent, space, <<>>)
        IN  /\ NextIdOf(result.file) <= MaxProjectId + 1
            /\ store' = result.file
            /\ assigned' = assigned \o Appended(store, store')
            /\ last' = [op |-> "import",
                        parent |-> parent,
                        space |-> space,
                        raised |-> result.raised,
                        summary |-> result.summary,
                        before |-> store,
                        after |-> result.file,
                        previous |-> IF last.op = "import"
                                     THEN Some([parent |-> last.parent,
                                                space |-> last.space,
                                                raised |-> last.raised,
                                                summary |-> last.summary,
                                                after |-> last.after])
                                     ELSE None]
            /\ UNCHANGED clock
            /\ UNCHANGED appVars
            /\ UNCHANGED termVars

ImportNext ==
    \/ CreateProject
    \/ DeleteProject
    \/ ImportLogged

ImportSpec == RepoInit /\ [][ImportNext]_vars

(***************************************************************************)
(* The store under any file content, bytes that are not text included      *)
(* (StoreSpec): load_config, ensure_schema and create_project, each with   *)
(* what it found, whether it raised and what it returned.                  *)
(***************************************************************************)
UndecodableStore == [kind |-> "undecodable", doc |-> DEFAULT_CONFIG]

\* A file whose only record has an id that is no number and a lone surrogate as
\* name.
SurrogateInvalidStore ==
    [kind |-> "object",
     doc |-> [open_command |-> JAbsentKey,
              projects |-> JList(<<RawItem([t |-> "bad", v |-> 0], <<"U+D800">>)>>),
              next_project_id |-> JInt(1)]]

FileContents == RawStores \cup {UndecodableStore, SurrogateInvalidStore}

\* An operation that loads the state and saves it is left by an exception
\* when the read raises or the write does.
raises(file) == load_raises(file) \/ save_raises(load_state(file))

StoreLast(op, config) ==
    [op |-> op,
     raised |-> IF op = "load" THEN load_raises(store) ELSE raises(store),
     before |-> store,
     config |-> config]

StoreLoad ==
    /\ last' = StoreLast("load", IF load_raises(store) THEN DEFAULT_CONFIG
                                 ELSE load_config(store))
    /\ UNCHANGED <<store, clock, assigned>>
    /\ UNCHANGED appVars
    /\ UNCHANGED termVars

StoreEnsureSchema ==
    /\ store' = IF load_raises(store) THEN store ELSE ensure_schema(store)
    /\ last' = StoreLast("ensure", DEFAULT_CONFIG)
    /\ UNCHANGED <<clock, assigned>>
    /\ UNCHANGED appVars
    /\ UNCHANGED termVars

StoreCreate ==
    \E form \in Forms :
        /\ load_raises(store) \/ NextIdOf(store) <= MaxProjectId
        /\ store' = IF load_raises(store) THEN store
                     ELSE create_project(store, now_iso(clock), form.name, form.path,
                                         form.space, form.tags)
        /\ last' = StoreLast("create", DEFAULT_CONFIG)
        /\ UNCHANGED <<clock, assigned>>
        /\ UNCHANGED appVars
        /\ UNCHANGED termVars

\* list_projects(""), get_project(project_id) and list_project_paths() on the
\* file as it is.
StoreRead ==
    \E project_id \in 0..MaxProjectId :
        /\ last' = [op |-> "read",
                    raised |-> load_raises(store),
                    before |-> store,
                    config |-> DEFAULT_CONFIG,
                    project_id |-> project_id,
                    listed |-> IF load_raises(store) THEN <<>>
                               ELSE list_projects(store, <<>>),
                    got |-> IF load_raises(store) THEN None
                            ELSE get_project(store, project_id),
                    paths |-> IF load_raises(store) THEN {}
                              ELSE list_project_paths(store)]
        /\ UNCHANGED <<store, clock, assigned>>
        /\ UNCHANGED appVars
        /\ UNCHANGED termVars

StoreInit ==
    /\ store \in FileContents
    /\ clock = 0
    /\ assigned = <<>>
    /\ last = NoLast
    /\ AppInit
    /\ TermInit

StoreNext ==
    \/ StoreLoad
    \/ StoreEnsureSchema
    \/ StoreCreate
    \/ StoreRead

StoreSpec == StoreInit /\ [][StoreNext]_vars

(***************************************************************************)
(* The application (AppSpec): the handlers of DevHavenApp over a store     *)
(* that starts absent, with the terminal widget and its input pump.        *)
(***************************************************************************)
Queries == { <<>>, <<"q">> }

AppRec ==
    [projects |-> projects,
     selected_project_id |-> selected_project_id,
     selected_space |-> selected_space,
     query_text |-> query_text,
     send_queue |-> send_queue,
     call |-> "nocall"]

TermRec == [emulator |-> emulator, send_queue |-> send_queue, spawned |-> spawned]

QueueLen(queue) == IF queue = None THEN 0 ELSE Len(queue[1])

\* The items a handler added to the queue it found.
Added(before, after) ==
    IF after = None THEN <<>>
    ELSE SubSeq(after[1], QueueLen(before) + 1, Len(after[1]))

\* A handler ends: the fields it wrote, and the history of what it did.
Finish(op, app, refreshed) ==
    /\ projects' = app.projects
    /\ selected_project_id' = app.selected_project_id
    /\ selected_space' = app.selected_space
    /\ query_text' = app.query_text
    /\ pending' = pending
    /\ send_queue' = app.send_queue
    /\ last' = [op |-> op,
                refreshed |-> refreshed,
                call |-> app.call,
                previous_project |-> selected_project_id,
                previous_space |-> selected_space,
                added |-> Added(send_queue, app.send_queue)]

\* The event loop runs the input pump between handlers: a handler starts with
\* room in the queue.
Ready == mounted /\ QueueLen(send_queue) < MaxQueue

OnMount ==
    /\ ~mounted
    /\ LET file == ensure_schema(store)
           term == start(TermRec)
           app == refresh_projects([AppRec EXCEPT !.send_queue = term.send_queue],
                                   file, None)
       IN  /\ store' = file
           /\ mounted' = TRUE
           /\ emulator' = term.emulator
           /\ spawned' = term.spawned
           /\ shell' = IF term.spawned > spawned THEN "running" ELSE shell
           /\ Finish("mount", app, TRUE)
    /\ UNCHANGED <<clock, assigned, pty_input, enqueued>>

OnInputChanged ==
    \E value \in Queries :
        /\ Ready
        /\ Finish("search", refresh_projects(AppRec, store, Some(value)), TRUE)
        /\ UNCHANGED <<store, clock, assigned, mounted, emulator, shell, spawned,
                       pty_input, enqueued>>

ActionRefresh ==
    /\ Ready
    /\ Finish("refresh", refresh_projects(AppRec, store, Some(query_text)), TRUE)
    /\ UNCHANGED <<store, clock, assigned, mounted, emulator, shell, spawned,
                   pty_input, enqueued>>

\* on_tree_node_selected / on_tree_node_highlighted for a node of the tree
OnTreeNode ==
    \E data \in TreeData(projects) \cup {NoData} :
        /\ Ready
        /\ Finish("tree", handle_tree_selection(AppRec, data), FALSE)
        /\ UNCHANGED <<store, clock, assigned, mounted, emulator, shell, spawned,
                       pty_input, enqueued>>

\* action_add_project, the form saved: _handle_add_result
HandleAddResult ==
    \E form \in Forms :
        /\ Ready
        /\ NextIdOf(store) <= MaxProjectId
        /\ store' = create_project(store, now_iso(clock), form.name, form.path,
                                   form.space, form.tags)
        /\ Finish("add", refresh_projects(AppRec, store', Some(query_text)), TRUE)
        /\ UNCHANGED <<clock, assigned, mounted, emulator, shell, spawned,
                       pty_input, enqueued>>

\* action_edit_project on the selected project, the form saved: _handle_edit_result
HandleEditResult ==
    \E form \in Forms :
        /\ Ready
        /\ get_selected_project(AppRec) # None
        /\ store' = update_project(store, now_iso(clock), get_selected_project(AppRec)[1].id,
                                   form.name, form.path, form.space, form.tags)
        /\ Finish("edit", refresh_projects(AppRec, store', Some(query_text)), TRUE)
        /\ UNCHANGED <<clock, assigned, mounted, emulator, shell, spawned,
                       pty_input, enqueued>>

\* action_delete_project on the selected project, confirmed: _handle_delete_result
HandleDeleteResult ==
    /\ Ready
    /\ get_selected_project(AppRec) # None
    /\ store' = delete_project(store, get_selected_project(AppRec)[1].id)
    /\ Finish("delete", refresh_projects(AppRec, store', Some(query_text)), TRUE)
    /\ UNCHANGED <<clock, assigned, mounted, emulator, shell, spawned,
                   pty_input, enqueued>>

\* action_import_projects, the form saved: _handle_import_result
HandleImportResult ==
    \E parent \in Parents, space \in ImportSpaces :
        LET result == import_projects(store, now_iso(clock), parent, space, <<>>)
        IN  /\ Ready
            /\ NextIdOf(result.file) <= MaxProjectId + 1
            /\ store' = result.file
            /\ IF result.raised
               THEN Finish("import_failed", AppRec, FALSE)
               ELSE IF result.summary.total_children = 0
               THEN Finish("import_empty", AppRec, FALSE)
               ELSE Finish("import",
                           refresh_projects(AppRec, store', Some(query_text)), TRUE)
            /\ UNCHANGED <<clock, assigned, mounted, emulator, shell, spawned,
                           pty_input, enqueued>>

\* action_open_project that stamps the project before it starts the opener
ActionOpenProject_stamping_first ==
    \E launched \in BOOLEAN :
        /\ Ready
        /\ get_selected_project(AppRec) # None
        /\ store' = touch_opened(store, now_iso(clock),
                                 get_selected_project(AppRec)[1].id)
        /\ IF launched
           THEN Finish("open",
                       refresh_projects(AppRec, store', Some(query_text)), TRUE)
           ELSE Finish("open_failed", AppRec, FALSE)
        /\ UNCHANGED <<clock, assigned, mounted, emulator, shell, spawned,
                       pty_input, enqueued>>

\* action_open_project: subprocess.Popen starts the opener or raises OSError
ActionOpenProject ==
    \E launched \in BOOLEAN :
        /\ Ready
        /\ get_selected_project(AppRec) # None
        /\ IF launched
           THEN /\ store' = touch_opened(store, now_iso(clock),
                                         get_selected_project(AppRec)[1].id)
                /\ Finish("open",
                          refresh_projects(AppRec, store', Some(query_text)), TRUE)
           ELSE /\ store' = store
                /\ Finish("open_failed", AppRec, FALSE)
        /\ UNCHANGED <<clock, assigned, mounted, emulator, shell, spawned,
                       pty_input, enqueued>>

\* The emulator's input pump takes the head of the queue and writes it to the
\* pseudo-terminal (AppSpec keeps no record of what the shell has read).
AppPump ==
    /\ shell = "running"
    /\ QueueLen(send_queue) > 0
    /\ send_queue' = Some(Tail(send_queue[1]))
    /\ UNCHANGED <<store, clock, assigned, last, emulator, shell, spawned,
                   pty_input, enqueued>>
    /\ UNCHANGED appVars

AppInit0 ==
    /\ store = AbsentStore
    /\ clock = 0
    /\ assigned = <<>>
    /\ last = NoLast
    /\ AppInit
    /\ TermInit

AppNext ==
    \/ Tick
    \/ OnMount
    \/ OnInputChanged
    \/ ActionRefresh
    \/ OnTreeNode
    \/ HandleAddResult
    \/ HandleEditResult
    \/ HandleDeleteResult
    \/ HandleImportResult
    \/ ActionOpenProject
    \/ AppPump

AppSpec == AppInit0 /\ [][AppNext]_vars

(***************************************************************************)
(* The application with tree messages in flight (StaleSpec): the tree      *)
(* posts NodeSelected / NodeHighlighted for one of its nodes, and the      *)
(* application handles the message later, after whatever handler ran in    *)
(* between.                                                                *)
(***************************************************************************)
\* The tree posts a message that carries the data of one of its current nodes.
PostTreeNode ==
    \E data \in TreeData(projects) :
        /\ mounted
        /\ pending = None
        /\ pending' = Some(data)
        /\ UNCHANGED <<store, clock, assigned, last, mounted, projects,
                       selected_project_id, selected_space, query_text>>
        /\ UNCHANGED termVars

\* on_tree_node_selected / on_tree_node_highlighted for the message in flight
DeliverTreeNode ==
    /\ Ready
    /\ pending # None
    /\ LET app == handle_tree_selection(AppRec, pending[1])
       IN  /\ projects' = app.projects
           /\ selected_project_id' = app.selected_project_id
           /\ selected_space' = app.selected_space
           /\ query_text' = app.query_text
           /\ send_queue' = app.send_queue
           /\ pending' = None
           /\ last' = [op |-> "tree",
                       refreshed |-> FALSE,
                       call |-> app.call,
                       previous_project |-> selected_project_id,
                       previous_space |-> selected_space,
                       added |-> Added(send_queue, app.send_queue)]
    /\ UNCHANGED <<store, clock, assigned, mounted, emulator, shell, spawned,
                   pty_input, enqueued>>

StaleNext ==
    \/ OnMount
    \/ OnInputChanged
    \/ HandleAddResult
    \/ HandleDeleteResult
    \/ AppPump
    \/ PostTreeNode
    \/ DeliverTreeNode

StaleSpec == AppInit0 /\ [][StaleNext]_vars

(***************************************************************************)
(* The terminal session called directly, in any order (TermSpec): start,   *)
(* key events, directory changes, the input pump and the shell's exit.     *)
(***************************************************************************)
CdPaths == { None, Some(<<>>), Some(<<"/", "q">>), Some(<<"a">>) }

TermLast(op) ==
    [op |-> op, emulator_before |-> emulator, queue_before |-> send_queue,
     spawned_before |-> spawned]

\* What a key event found, and the event.
TermKeyLast(event) ==
    [op |-> "key", emulator_before |-> emulator, queue_before |-> send_queue,
     spawned_before |-> spawned, event |-> event]

\* What a directory change found, and its path argument.
TermCdLast(path) ==
    [op |-> "cd", emulator_before |-> emulator, queue_before |-> send_queue,
     spawned_before |-> spawned, path |-> path]

CanSend == Len(enqueued) < MaxSent

TermStart ==
    /\ LET term == start(TermRec)
       IN  /\ emulator' = term.emulator
           /\ send_queue' = term.send_queue
           /\ spawned' = term.spawned
           /\ shell' = IF term.spawned > spawned THEN "running" ELSE shell
    /\ last' = TermLast("start")
    /\ UNCHANGED <<pty_input, enqueued>>
    /\ UNCHANGED repoVars
    /\ UNCHANGED appVars

\* sendKeystroke: ProjectTerminal.on_key
TermOnKey ==
    \E event \in KeyEvents :
        /\ CanSend
        /\ send_queue' = on_key(TermRec, event).send_queue
        /\ enqueued' = IF send_queue' # send_queue
                       THEN Append(enqueued, Stdin(key_char(event)[1]))
                       ELSE enqueued
        /\ last' = TermKeyLast(event)
        /\ UNCHANGED <<emulator, shell, spawned, pty_input>>
        /\ UNCHANGED repoVars
        /\ UNCHANGED appVars

\* changeDirectory: DevHavenApp._update_terminal_cwd
TermChangeDirectory ==
    \E path \in CdPaths :
        /\ CanSend
        /\ send_queue' = update_terminal_cwd(send_queue, path)
        /\ enqueued' = IF send_queue' # send_queue
                       THEN Append(enqueued, Stdin(build_cd_command(path[1])))
                       ELSE enqueued
        /\ last' = TermCdLast(path)
        /\ UNCHANGED <<emulator, shell, spawned, pty_input>>
        /\ UNCHANGED repoVars
        /\ UNCHANGED appVars

\* The emulator's input pump: the head of the queue is written to the
\* pseudo-terminal while the shell runs.
TermPump ==
    /\ shell = "running"
    /\ QueueLen(send_queue) > 0
    /\ pty_input' = Append(pty_input, Head(send_queue[1]))
    /\ send_queue' = Some(Tail(send_queue[1]))
    /\ last' = TermLast("pump")
    /\ UNCHANGED <<emulator, shell, spawned, enqueued>>
    /\ UNCHANGED repoVars
    /\ UNCHANGED appVars

\* The shell process exits.
ProcessExit ==
    /\ shell = "running"
    /\ shell' = "terminated"
    /\ last' = TermLast("exit")
    /\ UNCHANGED <<emulator, send_queue, spawned, pty_input, enqueued>>
    /\ UNCHANGED repoVars
    /\ UNCHANGED appVars

TermInit0 ==
    /\ store = AbsentStore
    /\ clock = 0
    /\ assigned = <<>>
    /\ last = NoLast
    /\ AppInit
    /\ TermInit

TermNext ==
    \/ TermStart
    \/ TermOnKey
    \/ TermChangeDirectory
    \/ TermPump
    \/ ProcessExit

TermSpec == TermInit0 /\ [][TermNext]_vars

(***************************************************************************)
(* The file as text (TextSpec): json.dumps and json.loads as save_config   *)
(* and load_config use them.  A dict is the sequence of its <<key, value>> *)
(* pairs in insertion order; a value is [t, v] with t one of "dict",       *)
(* "list", "str", "int", "null"; the text is a sequence of tokens, a       *)
(* string or number literal being one token and a line break with its      *)
(* indentation another.                                                    *)
(***************************************************************************)
JDict(pairs) == [t |-> "dict", v |-> pairs]
JNull == [t |-> "null", v |-> 0]
Punct(c) == [t |-> c, v |-> 0]
KeyTok(key) == [t |-> "key", v |-> key]
Indent(depth) == [t |-> "nl", v |-> 2 * depth]

\* str < str on the keys a catalog document has
KeyOrder ==
    <<"created_at", "id", "last_opened_at", "name", "next_project_id",
      "open_command", "path", "projects", "space", "tags", "updated_at">>

KeyRank(key) == CHOOSE i \in 1..Len(KeyOrder) : KeyOrder[i] = key

RECURSIVE InsertByKey(_, _)
InsertByKey(sorted, pair) ==
    IF sorted = <<>> THEN <<pair>>
    ELSE IF KeyRank(pair[1]) < KeyRank(Head(sorted)[1])
    THEN <<pair>> \o sorted
    ELSE <<Head(sorted)>> \o InsertByKey(Tail(sorted), pair)

RECURSIVE SortByKey(_)
SortByKey(pairs) ==
    IF pairs = <<>> THEN <<>>
    ELSE InsertByKey(SortByKey(SubSeq(pairs, 1, Len(pairs) - 1)), pairs[Len(pairs)])

RECURSIVE json_dumps(_, _)
\* json.dumps without sort_keys: members in insertion order
json_dumps_unsorted(value, depth) ==
    IF value.t = "dict"
    THEN IF value.v = <<>> THEN <<Punct("{"), Punct("}")>>
         ELSE LET pairs == value.v
                  member(i) ==
                      <<Indent(depth + 1), KeyTok(pairs[i][1]), Punct(":")>>
                      \o json_dumps(pairs[i][2], depth + 1)
                      \o (IF i < Len(pairs) THEN <<Punct(",")>> ELSE <<>>)
                  members[i \in 0..Len(pairs)] ==
                      IF i = 0 THEN <<>> ELSE members[i - 1] \o member(i)
              IN  <<Punct("{")>> \o members[Len(pairs)] \o <<Indent(depth), Punct("}")>>
    ELSE IF value.t = "list"
    THEN IF value.v = <<>> THEN <<Punct("["), Punct("]")>>
         ELSE LET items == value.v
                  element(i) ==
                      <<Indent(depth + 1)>>
                      \o json_dumps(items[i], depth + 1)
                      \o (IF i < Len(items) THEN <<Punct(",")>> ELSE <<>>)
                  elements[i \in 0..Len(items)] ==
                      IF i = 0 THEN <<>> ELSE elements[i - 1] \o element(i)
              IN  <<Punct("[")>> \o elements[Len(items)] \o <<Indent(depth), Punct("]")>>
    ELSE <<value>>

\* json.dumps(config, ensure_ascii=False, indent=2, sort_keys=True)
json_dumps(value, depth) ==
    IF value.t = "dict"
    THEN IF value.v = <<>> THEN <<Punct("{"), Punct("}")>>
         ELSE LET pairs == SortByKey(value.v)
                  member(i) ==
                      <<Indent(depth + 1), KeyTok(pairs[i][1]), Punct(":")>>
                      \o json_dumps(pairs[i][2], depth + 1)
                      \o (IF i < Len(pairs) THEN <<Punct(",")>> ELSE <<>>)
                  members[i \in 0..Len(pairs)] ==
                      IF i = 0 THEN <<>> ELSE members[i - 1] \o member(i)
              IN  <<Punct("{")>> \o members[Len(pairs)] \o <<Indent(depth), Punct("}")>>
    ELSE IF value.t = "list"
    THEN IF value.v = <<>> THEN <<Punct("["), Punct("]")>>
         ELSE LET items == value.v
                  element(i) ==
                      <<Indent(depth + 1)>>
                      \o json_dumps(items[i], depth + 1)
                      \o (IF i < Len(items) THEN <<Punct(",")>> ELSE <<>>)
                  elements[i \in 0..Len(items)] ==
                      IF i = 0 THEN <<>> ELSE elements[i - 1] \o element(i)
              IN  <<Punct("[")>> \o elements[Len(items)] \o <<Indent(depth), Punct("]")>>
    ELSE <<value>>

\* json.loads: whitespace is skipped; a dict keeps the members in text order.
RECURSIVE dict_set(_, _, _)
dict_set(pairs, key, value) ==
    IF pairs = <<>> THEN << <<key, value>> >>
    ELSE IF Head(pairs)[1] = key THEN << <<key, value>> >> \o Tail(pairs)
    ELSE <<Head(pairs)>> \o dict_set(Tail(pairs), key, value)

RECURSIVE parse_value(_)
RECURSIVE parse_members(_, _)
RECURSIVE parse_elements(_, _)
parse_members(toks, pairs) ==
    IF Head(toks).t = "}" THEN [value |-> JDict(pairs), rest |-> Tail(toks)]
    ELSE IF Head(toks).t = "," THEN parse_members(Tail(toks), pairs)
    ELSE LET member == parse_value(SubSeq(toks, 3, Len(toks)))
         IN  parse_members(member.rest, dict_set(pairs, Head(toks).v, member.value))

parse_elements(toks, items) ==
    IF Head(toks).t = "]" THEN [value |-> JList(items), rest |-> Tail(toks)]
    ELSE IF Head(toks).t = "," THEN parse_elements(Tail(toks), items)
    ELSE LET element == parse_value(toks)
         IN  parse_elements(element.rest, Append(items, element.value))

parse_value(toks) ==
    IF Head(toks).t = "{" THEN parse_members(Tail(toks), <<>>)
    ELSE IF Head(toks).t = "[" THEN parse_elements(Tail(toks), <<>>)
    ELSE [value |-> Head(toks), rest |-> Tail(toks)]

json_loads(text) == parse_value(SelectSeq(text, LAMBDA tok : tok.t # "nl")).value

\* DEFAULT_CONFIG as the dict literal of config_store.py
DEFAULT_CONFIG_DICT ==
    << <<"open_command", JStr(<<>>)>>,
       <<"projects", JList(<<>>)>>,
       <<"next_project_id", JInt(1)>> >>

\* dict.update: a key already present keeps its place, a new key goes last
RECURSIVE dict_update(_, _)
dict_update(base, payload) ==
    IF payload = <<>> THEN base
    ELSE dict_update(dict_set(base, Head(payload)[1], Head(payload)[2]), Tail(payload))

\* load_config over the file's text; a file is [kind, text]
load_config_text(file) ==
    IF file.kind = "absent" THEN DEFAULT_CONFIG_DICT
    ELSE LET payload == json_loads(file.text)
         IN  IF payload.t = "dict" THEN dict_update(DEFAULT_CONFIG_DICT, payload.v)
             ELSE DEFAULT_CONFIG_DICT

\* save_config: the text written for the dict config
save_config_text(config) == [kind |-> "text", text |-> json_dumps(JDict(config), 0)]

\* Python's == on loaded data: dicts compare by key and value, not by order
RECURSIVE PyData(_)
PyData(value) ==
    IF value.t = "dict"
    THEN [t |-> "dict",
          v |-> { <<value.v[i][1], PyData(value.v[i][2])>> : i \in 1..Len(value.v) }]
    ELSE IF value.t = "list"
    THEN [t |-> "list", v |-> [i \in 1..Len(value.v) |-> PyData(value.v[i])]]
    ELSE value

\* A project as create_project writes it, and the same with the keys inserted
\* in the opposite order.
ProjectDict(project_id, name) ==
    JDict(<< <<"id", JInt(project_id)>>,
             <<"name", JStr(name)>>,
             <<"path", JStr(<<"/", "q">>)>>,
             <<"space", JStr(DEFAULT_SPACE)>>,
             <<"tags", JList(<<JStr(<<"p">>)>>)>>,
             <<"created_at", JStr(now_iso(0))>>,
             <<"updated_at", JStr(now_iso(1))>>,
             <<"last_opened_at", JNull>> >>)

Reversed(seq) == [i \in 1..Len(seq) |-> seq[Len(seq) + 1 - i]]

ProjectLists ==
    { <<>>,
      <<ProjectDict(1, <<"a">>)>>,
      <<JDict(Reversed(ProjectDict(1, <<"a">>).v))>>,
      <<ProjectDict(2, <<"b">>), ProjectDict(1, <<"a">>)>> }

\* Valid catalog documents, each with its keys in three insertion orders.
Docs ==
    UNION { LET pairs == << <<"open_command", JStr(command)>>,
                            <<"projects", JList(items)>>,
                            <<"next_project_id", JInt(next_id)>> >>
            IN  { pairs, Reversed(pairs), <<pairs[2], pairs[1], pairs[3]>> } :
            command \in { <<>>, <<"q">> },
            items \in ProjectLists,
            next_id \in { 1, 3 } }

TextLast(op, data) == [op |-> op, data |-> data, before |-> store]

TextSave ==
    \E config \in Docs :
        /\ store' = save_config_text(config)
        /\ last' = TextLast("save", config)
        /\ UNCHANGED <<clock, assigned>>
        /\ UNCHANGED appVars
        /\ UNCHANGED termVars

TextLoad ==
    /\ last' = TextLast("load", load_config_text(store))
    /\ UNCHANGED <<store, clock, assigned>>
    /\ UNCHANGED appVars
    /\ UNCHANGED termVars

\* save_config(load_config()), as ensure_schema does on a valid document
TextResave ==
    /\ store.kind = "text"
    /\ store' = save_config_text(load_config_text(store))
    /\ last' = TextLast("resave", load_config_text(store))
    /\ UNCHANGED <<clock, assigned>>
    /\ UNCHANGED appVars
    /\ UNCHANGED termVars

TextInit ==
    /\ store = [kind |-> "absent", text |-> <<>>]
    /\ clock = 0
    /\ assigned = <<>>
    /\ last = NoLast
    /\ AppInit
    /\ TermInit

TextNext ==
    \/ TextSave
    \/ TextLoad
    \/ TextResave

TextSpec == TextInit /\ [][TextNext]_vars

(***************************************************************************)
(* Claims about the catalog.                                               *)
(***************************************************************************)
PersistedItems(file) ==
    IF file.kind = "object" /\ file.doc.projects.t = "list" THEN file.doc.projects.v
    ELSE <<>>

\* C1: from an absent store, under any sequence of ensure_schema, create, update,
\* delete, touch and import, the persisted records hold pairwise distinct positive
\* integer ids, and the persisted next_project_id is an integer >= 1 that is
\* greater than every one of them.
C1_IdsDistinctBelowNext ==
    store.kind = "object" =>
        LET items == PersistedItems(store)
            next_id == store.doc.next_project_id
        IN  /\ store.doc.projects.t = "list"
            /\ \A i \in 1..Len(items) :
                  /\ items[i].t = "dict"
                  /\ items[i].id.t = "int"
                  /\ items[i].id.v >= 1
                  /\ items[i].id.v < next_id.v
                  /\ \A j \in 1..Len(items) : i # j => items[i].id.v # items[j].id.v
            /\ next_id.t = "int"
            /\ next_id.v >= 1

\* C1 witness: record 2 persisted alone, opened, after record 1 was deleted.
C1_Witness ==
    /\ store.kind = "object"
    /\ ItemIds(PersistedItems(store)) = <<2>>
    /\ PersistedItems(store)[1].last_opened_at # None
    /\ store.doc.next_project_id = JInt(3)

\* C2: the ids create_project assigns are strictly increasing over the whole run,
\* whatever was deleted, updated or touched in between, and next_project_id stays
\* above every id ever assigned.
C2_IdMonotonicity ==
    /\ \A i, j \in 1..Len(assigned) : i < j => assigned[i].id < assigned[j].id
    /\ \A i \in 1..Len(assigned) : assigned[i].id < NextIdOf(store)

\* C2 witness: a project was created after the holder of the highest id had been
\* deleted, and it did not get that id again.
C2_Witness ==
    \E i \in 1..Len(assigned) :
        /\ i > 1
        /\ assigned[i].max_before < assigned[i - 1].id
        /\ assigned[i].id > assigned[i - 1].id

\* C3: on load, a next_project_id that is missing, not a number, or not greater
\* than some existing record's id is replaced by the largest existing id + 1, so
\* that the id the next create_project takes is held by no existing record.
C3_SelfHealingOnLoad ==
    store.kind = "object" =>
        LET ids == {project_id_of(PersistedItems(store)[i]) :
                        i \in {j \in 1..Len(PersistedItems(store)) :
                                  PersistedItems(store)[j].t = "dict"}}
            next_id == store.doc.next_project_id
            unusable == \/ next_id.t \notin {"int", "float"}
                        \/ \E id \in ids : id >= next_id.v
        IN  /\ unusable => NextIdOf(store) = MaxOf(ids \cup {0}) + 1
            /\ \A id \in ids : id < NextIdOf(store)

\* C4: list_projects("") returns every valid record, most recently opened first,
\* never-opened ones after all opened ones, and records with the same
\* last_opened_at in ascending case-insensitive name order.
C4_SortLaw ==
    LET listed == list_projects(store, <<>>)
    IN  /\ Len(listed) = Len(PersistedItems(store))
        /\ \A i \in 1..(Len(listed) - 1) :
              LET p == listed[i]
                  q == listed[i + 1]
              IN  /\ p.last_opened_at = None => q.last_opened_at = None
                  /\ ~StrLess(OpenedKey(p), OpenedKey(q))
                  /\ OpenedKey(p) = OpenedKey(q) =>
                        ~StrLess(lower(q.name), lower(p.name))

\* C4 witness: an opened "b" listed before a never-opened "a".
C4_Witness ==
    LET listed == list_projects(store, <<>>)
    IN  /\ Len(listed) = 2
        /\ listed[1].last_opened_at # None
        /\ lower(listed[1].name) = <<"b">>
        /\ listed[2].last_opened_at = None
        /\ listed[2].name = <<"a">>

(***************************************************************************)
(* Claims about the selection controller (AppSpec).                        *)
(***************************************************************************)
IdListed(project_id) == \E i \in 1..Len(projects) : projects[i].id = project_id
SpaceListed(name) == \E i \in 1..Len(projects) : projects[i].space = name

NoSelection == selected_project_id = None /\ selected_space = None

Refreshed == last.op # "init" /\ last.refreshed

PreviousProjectKept == last.previous_project # None /\ IdListed(last.previous_project[1])
PreviousSpaceKept == last.previous_space # None /\ SpaceListed(last.previous_space[1])

\* C5: after the refresh that ends a create, update, delete, touch, import or
\* query change, the list is the freshly loaded one and the selection is a listed
\* project id, a space with a listed project, or nothing; a deleted selected
\* project is never left selected.
C5_SelectionValidAfterRefresh ==
    Refreshed =>
        /\ projects = list_projects(store, query_text)
        /\ \/ NoSelection
           \/ /\ selected_project_id # None
              /\ selected_space = None
              /\ IdListed(selected_project_id[1])
           \/ /\ selected_space # None
              /\ selected_project_id = None
              /\ SpaceListed(selected_space[1])
        /\ last.op = "delete" => selected_project_id # last.previous_project

\* C5 witness: the selected project was deleted and the refresh selected another.
C5_Witness ==
    /\ Refreshed
    /\ last.op = "delete"
    /\ last.previous_project # None
    /\ selected_project_id # None

\* C6: a refresh keeps the previously selected project when its id is still
\* listed; failing that it keeps the previously selected space when that space
\* still has a listed project; it moves the selection only when neither is
\* available, and an empty list leaves nothing selected.
C6_SelectionSticky ==
    Refreshed =>
        /\ PreviousProjectKept =>
              selected_project_id = last.previous_project /\ selected_space = None
        /\ ~PreviousProjectKept /\ PreviousSpaceKept =>
              selected_space = last.previous_space /\ selected_project_id = None
        /\ \/ selected_project_id # last.previous_project
           \/ selected_space # last.previous_space
           => ~PreviousProjectKept /\ ~PreviousSpaceKept
        /\ projects = <<>> => NoSelection

\* C6 witness: after an edit the edited project is still selected although
\* another project now comes first in the list.
C6_Witness ==
    /\ Refreshed
    /\ last.op = "edit"
    /\ selected_project_id # None
    /\ selected_project_id = last.previous_project
    /\ Len(projects) = 2
    /\ projects[1].id # selected_project_id[1]

FallbackTaken == Refreshed /\ ~PreviousProjectKept /\ ~PreviousSpaceKept /\ projects # <<>>

\* C7 as claimed: when a refresh falls back with a non-empty list it selects the
\* first project of the list list_projects returned.
C7_FallbackFirstListed ==
    FallbackTaken => selected_project_id = Some(projects[1].id)

\* C7 as amended: when a refresh falls back with a non-empty list it selects the
\* first project node of the rebuilt tree: no listed project has a space that is
\* case-insensitively smaller, and none in the same space has a name that is
\* case-insensitively smaller.
C7_FallbackFirstInTree ==
    FallbackTaken =>
        /\ selected_project_id # None
        /\ selected_space = None
        /\ \E i \in 1..Len(projects) :
              /\ projects[i].id = selected_project_id[1]
              /\ \A j \in 1..Len(projects) :
                    /\ ~StrLess(lower(projects[j].space), lower(projects[i].space))
                    /\ projects[j].space = projects[i].space =>
                          ~StrLess(lower(projects[j].name), lower(projects[i].name))

\* C7 witness: a fallback that selected a project other than the first listed.
C7_Witness ==
    /\ FallbackTaken
    /\ selected_project_id # None
    /\ selected_project_id # Some(projects[1].id)

\* C8: a handler that ends in set_selected_project for a listed project puts
\* exactly one cd command for that project's path on the started terminal's
\* queue; one that ends in set_selected_space or in no selection puts nothing.
C8_CdOnProjectSelected ==
    last.op # "init" =>
        /\ /\ last.call = "project"
           /\ selected_project_id # None
           /\ IdListed(selected_project_id[1])
           /\ send_queue # None
           => last.added =
                 <<Stdin(build_cd_command(
                     project_map_get(projects, selected_project_id[1])[1].path))>>
        /\ last.call \in {"space", "none"} => last.added = <<>>

\* C8 witness: a tree event selected a listed project and one cd was queued.
C8_Witness ==
    /\ last.op = "tree"
    /\ last.call = "project"
    /\ IdListed(selected_project_id[1])
    /\ Len(last.added) = 1

(***************************************************************************)
(* Claims about the terminal session (TermSpec).                           *)
(***************************************************************************)
\* C9: keystrokes and cd commands share one queue and reach the pseudo-terminal
\* in the order of the calls that queued them: what was written followed by what
\* is still queued is exactly what was queued, nothing lost or repeated.
C9_Fifo ==
    IF send_queue = None
    THEN enqueued = <<>> /\ pty_input = <<>>
    ELSE pty_input \o send_queue[1] = enqueued

\* C9 witness: a keystroke, then a cd, then a keystroke, all written in that order.
C9_Witness ==
    /\ Len(pty_input) = 3
    /\ pty_input = enqueued
    /\ pty_input[1] = Stdin(<<"a">>)
    /\ pty_input[2] = Stdin(build_cd_command(<<"/", "q">>))
    /\ pty_input[3] = Stdin(<<"^C">>)

ShellOrder ==
    /\ shell = "running" => shell' \in {"running", "terminated"}
    /\ shell = "terminated" => shell' = "terminated"

C11_KeystrokeTranslation ==
    last.op = "key" /\ last.emulator_before =>
        LET event == last.event
            rest == SubSeq(event.key, 6, Len(event.key))
            added == Added(last.queue_before, send_queue)
            ctrl_letter == /\ Len(event.key) = 6
                           /\ SubSeq(event.key, 1, 5) = <<"c", "t", "r", "l", "+">>
                           /\ event.key[6] \in {"a", "b", "c", "z", "B", "W"}
        IN  /\ event.key = RELEASE_FOCUS_KEY => added = <<>>
            /\ ctrl_keys(event.key) = None /\ ctrl_letter =>
                  /\ Len(added) = 1
                  /\ added[1][1] = "stdin"
                  /\ Len(added[1][2]) = 1
                  /\ Code(added[1][2][1]) = Code(LowerChar(event.key[6])) - 96
                  /\ Code(added[1][2][1]) \in 1..26
            /\ /\ ctrl_keys(event.key) = None
               /\ ~ctrl_letter
               /\ event.key # RELEASE_FOCUS_KEY
               => added = IF event.character # None /\ event.character[1] # <<>>
                          THEN <<Stdin(event.character[1])>>
                          ELSE <<>>

\* C11 witness: ctrl+z was queued as the character with code 26 behind a literal
\* "a" and the translation of ctrl+B.
C11_Witness ==
    /\ last.op = "key"
    /\ last.emulator_before
    /\ last.event.key = <<"c", "t", "r", "l", "+", "z">>
    /\ send_queue = Some(<<Stdin(<<"a">>), Stdin(<<"^B">>), Stdin(<<"^Z">>)>>)


\* C12: a directory change made before the session is started, or with an empty
\* or absent path, leaves the queue as it was; a key event that arrives while no
\* session exists is dropped; without a session there is no queue and nothing
\* has been queued or written.
C12_NothingBeforeStart ==
    /\ /\ last.op = "cd"
       /\ \/ last.queue_before = None
          \/ last.path = None
          \/ last.path[1] = <<>>
       => send_queue = last.queue_before
    /\ last.op = "key" /\ ~last.emulator_before => send_queue = last.queue_before
    /\ ~emulator => send_queue = None /\ enqueued = <<>> /\ pty_input = <<>>

\* C12 witness: a directory change to "/q" arrived before start() and left the
\* terminal without a queue.
C12_Witness ==
    /\ last.op = "cd"
    /\ ~last.emulator_before
    /\ last.path = Some(<<"/", "q">>)
    /\ send_queue = None
    /\ enqueued = <<>>


(***************************************************************************)
(* Claims about the store (StoreSpec).                                     *)
(***************************************************************************)
ValidDocument(file) ==
    /\ file.kind = "object"
    /\ file.doc.projects.t = "list"
    /\ file.doc.next_project_id.t \in {"int", "bool"}
    /\ file.doc.next_project_id.v >= 1
    /\ file.doc.open_command.t # "missing"

\* C13: whatever the file holds, load returns without raising: exactly the
\* defaults when the file is absent, is not text or is not JSON, otherwise the
\* defaults overlaid with the top-level fields parsed; and a save after such a
\* load leaves a valid document in the file.
C13_LoadNeverFatal ==
    /\ last.op = "load" =>
          /\ ~last.raised
          /\ store.kind \in {"absent", "undecodable", "invalid"} =>
                last.config = DEFAULT_CONFIG
          /\ store.kind = "nonobject" => last.config = DEFAULT_CONFIG
          /\ store.kind = "object" =>
                \A k \in DOMAIN DEFAULT_CONFIG :
                    last.config[k] = IF store.doc[k].t = "missing"
                                     THEN DEFAULT_CONFIG[k]
                                     ELSE store.doc[k]
    /\ last.op \in {"ensure", "create"} => ~last.raised /\ ValidDocument(store)


(***************************************************************************)
(* Claims about the file's text (TextSpec).                                *)
(***************************************************************************)
SameData(a, b) == PyData(JDict(a)) = PyData(JDict(b))

\* C14: loading after saving a valid document returns data equal to it field by
\* field; documents with the same data are written as the same text whatever
\* the order their keys were inserted in; and saving what was loaded leaves the
\* text as it was.
C14_RoundTripDeterminism ==
    /\ last.op = "save" =>
          /\ SameData(load_config_text(store), last.data)
          /\ \A other \in Docs :
                SameData(other, last.data) => save_config_text(other) = store
    /\ last.op = "resave" => store = last.before /\ SameData(last.data, load_config_text(store))

\* C14 witness: a document with a project, its keys inserted "projects" first,
\* was saved over the text of the same data and the text did not change.
C14_Witness ==
    /\ last.op = "save"
    /\ last.data[1][1] = "projects"
    /\ last.data[1][2].v # <<>>
    /\ last.before = store
    /\ load_config_text(store)[1][1] = "open_command"


\* C15: whatever the file held at first, the file after a second ensure_schema
\* in a row is the file after the first.
C15_EnsureSchemaIdempotent ==
    last.op = "ensure" =>
        store = IF load_raises(store) THEN store ELSE ensure_schema(store)


(***************************************************************************)
(* Claims about import_projects (ImportSpec).                              *)
(***************************************************************************)
Subdirectories(parent) == SelectSeq(parent.children, LAMBDA child : child.is_dir)

\* Child i is handled before child j: smaller lower-cased name, disk order on ties.
HandledBefore(dirs, i, j) ==
    \/ StrLess(lower(dirs[i].name), lower(dirs[j].name))
    \/ lower(dirs[i].name) = lower(dirs[j].name) /\ i < j

HiddenChildren(dirs) == {i \in 1..Len(dirs) : Head(dirs[i].name) = "."}

ExistingChildren(dirs, paths) ==
    {i \in 1..Len(dirs) \ HiddenChildren(dirs) :
        \/ dirs[i].resolved \in paths
        \/ \E j \in 1..Len(dirs) \ HiddenChildren(dirs) :
              HandledBefore(dirs, j, i) /\ dirs[j].resolved = dirs[i].resolved}

PathsOf(file) == {PersistedItems(file)[i].path : i \in 1..Len(PersistedItems(file))}

\* C16: an import counts every subdirectory of the parent in exactly one of
\* skipped_hidden (name starts with "."), skipped_existing (path already in the
\* path set) and added; total_children counts them all; the added ones, and only
\* they, are appended as one record each in case-insensitive name order.
C16_ImportClassification ==
    last.op = "import" /\ ~last.raised =>
        LET dirs == Subdirectories(last.parent)
            hidden == HiddenChildren(dirs)
            existing == ExistingChildren(dirs, PathsOf(last.before))
            fresh == (1..Len(dirs) \ hidden) \ existing
            old == PersistedItems(last.before)
            all == PersistedItems(last.after)
            new == SubSeq(all, Len(old) + 1, Len(all))
        IN  /\ last.summary.total_children = Len(dirs)
            /\ last.summary.skipped_hidden = Cardinality(hidden)
            /\ last.summary.skipped_existing = Cardinality(existing)
            /\ last.summary.added = Cardinality(fresh)
            /\ SubSeq(all, 1, Len(old)) = old
            /\ Len(new) = Cardinality(fresh)
            /\ \A i \in fresh :
                  Cardinality({k \in 1..Len(new) :
                      new[k].name = dirs[i].name /\ new[k].path = dirs[i].resolved}) = 1
            /\ \A k \in 1..Len(new) : \A i \in hidden : new[k].name # dirs[i].name
            /\ \A k \in 1..(Len(new) - 1) :
                  ~StrLess(lower(new[k + 1].name), lower(new[k].name))

\* C16 witness: with "/w/a" cataloged, importing "/w" (".c", "a", "B") added "B",
\* skipped "a" as existing and ".c" as hidden, and counted three children.
C16_Witness ==
    /\ last.op = "import"
    /\ last.parent.path = <<"/", "w">>
    /\ last.summary = [added |-> 1, skipped_existing |-> 1, skipped_hidden |-> 1,
                       total_children |-> 3]
    /\ PathsOf(last.after) = { <<"/", "w", "/", "a">>, <<"/", "w", "/", "B">> }


\* C17: an import of the parent the previous import scanned, on the file that
\* import left, adds nothing, counts every non-hidden child as existing and
\* leaves the file as it was; and one import never appends two records with the
\* same path.
C17_ImportDedup ==
    last.op = "import" /\ ~last.raised =>
        /\ /\ last.previous # None
           /\ last.previous[1].parent = last.parent
           /\ last.previous[1].after = last.before
           => /\ last.summary.added = 0
              /\ last.summary.skipped_existing =
                    last.summary.total_children - last.summary.skipped_hidden
              /\ last.after = last.before
        /\ LET old == PersistedItems(last.before)
               all == PersistedItems(last.after)
           IN  \A k, l \in (Len(old) + 1)..Len(all) : k # l => all[k].path # all[l].path

\* C17 witness: "/p" holds "p" and a link "q" to it; the first import added one
\* project and skipped the other child, the second import added none and skipped
\* both.
C17_Witness ==
    /\ last.op = "import"
    /\ last.parent = LinkedParent
    /\ last.previous # None
    /\ last.previous[1].parent = LinkedParent
    /\ last.previous[1].summary.added = 1
    /\ last.previous[1].summary.skipped_existing = 1
    /\ last.previous[1].after = last.before
    /\ last.summary.added = 0
    /\ last.summary.skipped_existing = 2


(***************************************************************************)
(* Claims about the import dialog of the application (AppSpec)             *)
(***************************************************************************)
\* C18: import_projects raises FileNotFoundError exactly when the parent is not
\* an existing directory, and then returns the file as it was; the application
\* step that handles the failure changes neither the file nor the selection.
C18_ImportNotFound ==
    /\ [](\A parent \in Parents, space \in ImportSpaces :
            LET result == import_projects(store, now_iso(clock), parent, space, <<>>)
            IN  /\ result.raised <=> ~parent.is_dir
                /\ result.raised => result.file = store)
    /\ [][last'.op = "import_failed" /\ last' # last =>
            /\ store' = store
            /\ selected_project_id' = selected_project_id
            /\ selected_space' = selected_space]_vars

\* C18 witness: an import of a parent that is no directory has failed while the
\* catalog held a project and that project was selected.
C18_Witness ==
    /\ last.op = "import_failed"
    /\ PersistedItems(store) # <<>>
    /\ selected_project_id # None
    /\ last.previous_project = selected_project_id


(***************************************************************************)
(* Claims about what each repository call leaves alone (FrameSpec)         *)
(***************************************************************************)
\* C19: update_project with an id no record holds leaves the file as it was,
\* unwritten; otherwise the record with the id gets the name, the path, the
\* normalized space and tags and the clock reading as updated_at, and its other
\* fields, the other records, next_project_id and open_command stay.
C19_UpdateFrame ==
    last.op = "update" =>
        LET old == load_state(last.before)
            new == load_state(store)
            hits == {i \in 1..Len(old.projects) :
                        project_id_of(old.projects[i]) = last.project_id}
        IN  IF hits = {}
            THEN store = last.before
            ELSE /\ store.kind = "object"
                 /\ Cardinality(hits) = 1
                 /\ Len(new.projects) = Len(old.projects)
                 /\ new.next_project_id = old.next_project_id
                 /\ new.open_command = old.open_command
                 /\ \A i \in 1..Len(old.projects) :
                       IF i \in hits
                       THEN /\ new.projects[i].name = last.form.name
                            /\ new.projects[i].path = last.form.path
                            /\ new.projects[i].space = normalize_space(last.form.space)
                            /\ new.projects[i].tags = normalize_tags(last.form.tags)
                            /\ new.projects[i].updated_at = last.now
                            /\ new.projects[i].id = old.projects[i].id
                            /\ new.projects[i].created_at = old.projects[i].created_at
                            /\ new.projects[i].last_opened_at = old.projects[i].last_opened_at
                       ELSE new.projects[i] = old.projects[i]

\* C19 witness: record 1 of two was updated at a later clock reading than its
\* creation, after it had been opened; and (second case) an update named an id
\* while no file existed.
C19_Witness ==
    /\ last.op = "update"
    /\ last.project_id = 1
    /\ Len(load_state(store).projects) = 2
    /\ project_id_of(load_state(store).projects[1]) = 1
    /\ load_state(store).projects[1].updated_at # load_state(store).projects[1].created_at
    /\ load_state(store).projects[1].last_opened_at # None
    /\ load_state(store).projects[1].name # load_state(last.before).projects[1].name

C19_WitnessUnknownId ==
    /\ last.op = "update"
    /\ last.before.kind = "absent"

\* C20: a record nobody has opened has no last_opened_at; touch_opened sets
\* last_opened_at and updated_at of the record with the id to the clock reading
\* and changes nothing else; every other call leaves the last_opened_at of the
\* records it keeps as it was.
C20_OnlyTouchOpens ==
    LET old == load_state(last.before)
        new == load_state(store)
    IN  /\ \A j \in 1..Len(new.projects) :
              project_id_of(new.projects[j]) \notin last.touched
                  => new.projects[j].last_opened_at = None
        /\ last.op = "touch" /\ HoldsId(last.before, last.project_id) =>
              /\ Len(new.projects) = Len(old.projects)
              /\ new.next_project_id = old.next_project_id
              /\ new.open_command = old.open_command
              /\ \A i \in 1..Len(old.projects) :
                    IF project_id_of(old.projects[i]) = last.project_id
                    THEN new.projects[i] =
                            [old.projects[i] EXCEPT !.last_opened_at = Some(last.now),
                                                    !.updated_at = last.now]
                    ELSE new.projects[i] = old.projects[i]
        /\ last.op = "touch" /\ ~HoldsId(last.before, last.project_id) =>
              store = last.before
        /\ last.op \notin {"touch", "init"} =>
              \A i \in 1..Len(old.projects), j \in 1..Len(new.projects) :
                  project_id_of(old.projects[i]) = project_id_of(new.projects[j])
                      => new.projects[j].last_opened_at = old.projects[i].last_opened_at

\* C20 witness: record 1 was opened at clock reading 0 and now, at reading 1,
\* record 2 is touched while record 1 keeps its stamp.
C20_Witness ==
    /\ last.op = "touch"
    /\ last.project_id = 2
    /\ last.now = now_iso(1)
    /\ Len(load_state(store).projects) = 2
    /\ load_state(store).projects[1].last_opened_at = Some(now_iso(0))
    /\ load_state(store).projects[2].last_opened_at = Some(now_iso(1))
    /\ load_state(last.before).projects[2].last_opened_at = None
    /\ load_state(last.before).projects[2].updated_at = now_iso(0)


(***************************************************************************)
(* Claims about the repository over a longer list (CatalogSpec)            *)
(***************************************************************************)
\* The records of the loaded file whose id is not project_id, in file order.
Others(file, project_id) ==
    SelectSeq(load_state(file).projects,
              LAMBDA item : project_id_of(item) # project_id)

\* C21: delete_project removes the record with the id and keeps the other
\* records, their order, next_project_id and open_command; it writes only when
\* a record was removed; and delete_project, update_project and touch_opened with
\* an id no record holds leave the file as it was, unwritten.
C21_DeleteFrame ==
    /\ last.op = "delete" =>
          /\ load_state(store).projects = Others(last.before, last.project_id)
          /\ load_state(store).next_project_id = load_state(last.before).next_project_id
          /\ load_state(store).open_command = load_state(last.before).open_command
          /\ HoldsId(last.before, last.project_id) => store.kind = "object"
    /\ last.op \in {"delete", "update", "touch"}
          /\ ~HoldsId(last.before, last.project_id) => store = last.before

\* C21 witness: the middle one of three records was deleted and the two around it
\* stay in their order; and a delete named an id while no file existed.
C21_Witness ==
    /\ last.op = "delete"
    /\ last.project_id = 2
    /\ ItemIds(load_state(last.before).projects) = <<1, 2, 3>>
    /\ ItemIds(load_state(store).projects) = <<1, 3>>
    /\ load_state(store).projects[1].name # load_state(store).projects[2].name

C21_WitnessUnknownId ==
    /\ last.op = "delete"
    /\ last.before.kind = "absent"
    /\ store.kind = "absent"


\* The first position of tag among the trimmed given tags (0 when there is none).
FirstGiven(given, tag) ==
    LET at == {k \in 1..Len(given) : strip(given[k]) = tag}
    IN  IF at = {} THEN 0 ELSE CHOOSE k \in at : \A l \in at : k <= l

\* tags holds each non-blank trimmed given tag once, in order of first occurrence.
TagsOf(given, tags) ==
    /\ \A i \in 1..Len(tags) : tags[i] # <<>> /\ FirstGiven(given, tags[i]) > 0
    /\ \A k \in 1..Len(given) :
          strip(given[k]) # <<>> => \E i \in 1..Len(tags) : tags[i] = strip(given[k])
    /\ \A i, j \in 1..Len(tags) :
          i < j => FirstGiven(given, tags[i]) < FirstGiven(given, tags[j])

\* C22: create_project appends one record and changes no other; the record has
\* the next_project_id held before the call as id (1 when there is no file), the
\* given name and path, the trimmed space or the default for a blank one, the
\* given tags trimmed, without blanks and duplicates in order of first
\* occurrence, created_at = updated_at = the clock reading and no last_opened_at;
\* next_project_id grows by one, whatever names and paths the list holds.
C22_CreateAppends ==
    last.op = "create" =>
        LET old == load_state(last.before)
            new == load_state(store)
            n == Len(old.projects)
        IN  /\ Len(new.projects) = n + 1
            /\ \A i \in 1..n : new.projects[i] = old.projects[i]
            /\ new.projects[n + 1].id = old.next_project_id
            /\ last.before.kind = "absent" => new.projects[n + 1].id = JInt(1)
            /\ \A i \in 1..n : project_id_of(old.projects[i]) # new.projects[n + 1].id.v
            /\ new.next_project_id = JInt(old.next_project_id.v + 1)
            /\ new.projects[n + 1].name = last.form.name
            /\ new.projects[n + 1].path = last.form.path
            /\ new.projects[n + 1].space =
                  (IF strip(last.form.space) = <<>> THEN DEFAULT_SPACE
                   ELSE strip(last.form.space))
            /\ TagsOf(last.form.tags, new.projects[n + 1].tags)
            /\ new.projects[n + 1].created_at = last.now
            /\ new.projects[n + 1].updated_at = last.now
            /\ new.projects[n + 1].last_opened_at = None

\* C22 witness: a record with the name and the path of record 1 was created as
\* record 2, from a form with a padded space and repeated, padded and empty tags.
C22_Witness ==
    /\ last.op = "create"
    /\ Len(last.form.tags) = 5
    /\ Len(load_state(store).projects) = 2
    /\ load_state(store).projects[1].name = load_state(store).projects[2].name
    /\ load_state(store).projects[1].path = load_state(store).projects[2].path
    /\ load_state(store).projects[1].id # load_state(store).projects[2].id
    /\ load_state(store).projects[2].tags = << <<"p">>, <<"q">>, <<"P">> >>
    /\ load_state(store).projects[2].space = <<"w">>

\* C22 witness: a form with a blank space created the first record of all.
C22_WitnessBlankSpace ==
    /\ last.op = "create"
    /\ last.before.kind = "absent"
    /\ last.form.space = <<" ">>
    /\ load_state(store).projects[1].space = DEFAULT_SPACE


\* The search text as list_projects compares it: trimmed and lower-cased.
Needle(query) == lower(strip(query))

\* The needle is in the lower-cased name, path, space or comma-joined tags.
InSomeField(project, needle) ==
    \E field \in {project.name, project.path, project.space, join_comma(project.tags)} :
        Contains(lower(field), needle)

\* The needle is in the lower-cased name, path, space and comma-joined tags put
\* one after the other.
InConcatenation(project, needle) ==
    Contains(lower(project.name \o project.path \o project.space
                   \o join_comma(project.tags)), needle)

\* C23 as stated: a search lists the projects of the full list, in its order,
\* whose concatenated fields hold the search text.
C23_FilterByConcatenation ==
    last.op = "list" =>
        last.listed = SelectSeq(list_projects(last.before, <<>>),
                          LAMBDA project : InConcatenation(project, Needle(last.query)))

\* C23: a search lists the projects of the full list, in its order, of which at
\* least one of name, path, space and comma-joined tags holds the trimmed search
\* text, upper and lower case taken as equal; an empty or blank search text lists
\* every project.
C23_FilterByField ==
    last.op = "list" =>
        /\ last.listed = SelectSeq(list_projects(last.before, <<>>),
                             LAMBDA project : InSomeField(project, Needle(last.query)))
        /\ Needle(last.query) = <<>> =>
              Len(last.listed) = Len(load_state(last.before).projects)

\* C23 witness: of three records the search for "Q " lists the two with the path
\* "/q", the one opened first, and leaves out the third.
C23_Witness ==
    /\ last.op = "list"
    /\ last.query = <<"Q", " ">>
    /\ Len(load_state(store).projects) = 3
    /\ Len(last.listed) = 2
    /\ last.listed[1].last_opened_at # None
    /\ last.listed[2].last_opened_at = None
    /\ last.listed[1].id > last.listed[2].id


(***************************************************************************)
(* Claims about opening the selected project (AppSpec)                     *)
(***************************************************************************)
\* C24: when the opener does not start, the file, the listed projects and the
\* selection stay as they were; when it starts, the file becomes the one
\* touch_opened gives for the selected project at the clock reading, and the
\* list shown is the list of that file under the current search text.
C24_StampAfterLaunch ==
    /\ [][last'.op = "open_failed" =>
            /\ store' = store
            /\ projects' = projects
            /\ selected_project_id' = selected_project_id
            /\ selected_space' = selected_space]_vars
    /\ [][last'.op = "open" /\ QueueLen(send_queue') > QueueLen(send_queue) =>
            /\ selected_project_id # None
            /\ HoldsId(store, selected_project_id[1])
            /\ store' = touch_opened(store, now_iso(clock), selected_project_id[1])
            /\ \E i \in 1..Len(PersistedItems(store')) :
                  /\ project_id_of(PersistedItems(store')[i]) = selected_project_id[1]
                  /\ PersistedItems(store')[i].last_opened_at = Some(now_iso(clock))
                  /\ PersistedItems(store')[i].updated_at = now_iso(clock)
            /\ projects' = list_projects(store', query_text)]_vars

\* C24 witness: the opener did not start for the selected project, which was
\* never opened and is listed behind another one.
C24_Witness ==
    /\ last.op = "open_failed"
    /\ Len(projects) = 2
    /\ selected_project_id = Some(projects[2].id)
    /\ projects[2].last_opened_at = None

\* C24 witness: the opener started for the second listed project, which is now
\* listed first with its stamp.
C24_WitnessLaunched ==
    /\ last.op = "open"
    /\ Len(projects) = 2
    /\ selected_project_id = Some(projects[1].id)
    /\ projects[1].last_opened_at = Some(now_iso(clock))
    /\ projects[2].last_opened_at = None
    /\ StrLess(lower(projects[2].name), lower(projects[1].name))


(***************************************************************************)
(* Claims about the selection and the terminal (AppSpec)                   *)
(***************************************************************************)
\* C25: a refresh that ends with the project selected that was selected before
\* it puts no cd command on the queue; a cd command is put only when the
\* selected project has changed.
C25_CdOnlyOnChange ==
    /\ Refreshed
    /\ last.previous_project # None
    /\ selected_project_id = last.previous_project
    => last.added = <<>>


\* C26: in every state the selected project id is the id of a listed project and
\* the selected space is the space of a listed project, also after a tree node
\* message that was posted before the latest refresh has been handled.
C26_SelectionAlwaysValid ==
    /\ selected_project_id # None => IdListed(selected_project_id[1])
    /\ selected_space # None => SpaceListed(selected_space[1])


\* C27: list_project_paths returns exactly the paths of the projects that
\* list_projects("") returns for the same file.
C27_PathsOfListed ==
    last.op = "list" /\ last.query = <<>> =>
        last.paths = {last.listed[i].path : i \in 1..Len(last.listed)}


(***************************************************************************)
(* Claims about records that fail validation (StoreSpec)                   *)
(***************************************************************************)
\* The record is no object, or has no id that reads as an integer, or a blank
\* name or path.
FailsValidation(item) ==
    \/ item.t # "dict"
    \/ item.id.t \notin {"int", "bool", "float", "numstr"}
    \/ strip(item.name) = <<>>
    \/ strip(item.path) = <<>>

\* The positions of the file's records that pass validation.
ValidAt(file) ==
    {i \in 1..Len(PersistedItems(file)) : ~FailsValidation(PersistedItems(file)[i])}

\* C28: on a readable file list_projects, get_project and list_project_paths
\* raise nothing, return only records that pass validation and write nothing;
\* ensure_schema raises nothing and leaves every record that fails validation
\* in the file, at its place and as it was.
C28_InvalidRecordsKept ==
    /\ last.op = "read" /\ ~load_raises(last.before) =>
          /\ ~last.raised
          /\ store = last.before
          /\ Len(last.listed) = Cardinality(ValidAt(store))
          /\ \A k \in 1..Len(last.listed) :
                \E i \in ValidAt(store) :
                    /\ last.listed[k].id = PersistedItems(store)[i].id.v
                    /\ last.listed[k].name = strip(PersistedItems(store)[i].name)
          /\ last.got # None =>
                \E i \in ValidAt(store) :
                    /\ PersistedItems(store)[i].id.v = last.project_id
                    /\ last.got[1].name = strip(PersistedItems(store)[i].name)
    /\ /\ last.op = "ensure"
       /\ ~load_raises(last.before)
       /\ \E i \in 1..Len(PersistedItems(last.before)) :
             FailsValidation(PersistedItems(last.before)[i])
       =>
          /\ ~last.raised
          /\ Len(PersistedItems(store)) = Len(PersistedItems(last.before))
          /\ \A i \in 1..Len(PersistedItems(last.before)) :
                FailsValidation(PersistedItems(last.before)[i])
                    => PersistedItems(store)[i] = PersistedItems(last.before)[i]


(***************************************************************************)
(* Claims about the import summary (ImportSpec)                            *)
(***************************************************************************)
\* C29: the counts of an import summary add up to its total_children, and the
\* file holds exactly added records more than before the import.
C29_SummaryAddsUp ==
    last.op = "import" /\ ~last.raised =>
        /\ last.summary.added + last.summary.skipped_existing
              + last.summary.skipped_hidden = last.summary.total_children
        /\ Len(load_state(last.after).projects) =
              Len(load_state(last.before).projects) + last.summary.added

\* C29 witness: an import that added one project, skipped one that was there
\* and skipped one hidden directory.
C29_Witness ==
    /\ last.op = "import"
    /\ ~last.raised
    /\ last.summary.added = 1
    /\ last.summary.skipped_existing = 1
    /\ last.summary.skipped_hidden = 1
    /\ last.summary.total_children = 3
    /\ Len(load_state(last.after).projects) = 2


(***************************************************************************)
(* Claims about the fallback of refresh_projects (AppSpec)                 *)
(***************************************************************************)
\* C30: a refresh ends with a space selected only when that space was selected
\* before it; when neither the previous project nor the previous space is listed
\* and the list is not empty it ends with a project selected; and it ends with
\* nothing selected exactly when the list is empty.  The branch that selects the
\* first space is therefore never taken.
C30_NoSpaceFallback ==
    Refreshed =>
        /\ selected_space # None => selected_space = last.previous_space
        /\ ~PreviousProjectKept /\ ~PreviousSpaceKept /\ projects # <<>>
              => selected_project_id # None /\ selected_space = None
        /\ NoSelection <=> projects = <<>>

\* C30 witness: the selected space lost its only project while another project
\* stayed listed, and the refresh selected that project.
C30_Witness ==
    /\ Refreshed
    /\ last.previous_space # None
    /\ ~SpaceListed(last.previous_space[1])
    /\ projects # <<>>
    /\ selected_project_id # None
    /\ selected_space = None

\* C30 witness: the last project was deleted and the refresh selected nothing.
C30_WitnessEmpty ==
    /\ Refreshed
    /\ last.previous_project # None
    /\ projects = <<>>
    /\ NoSelection

====
